---- MODULE Spec2Model ----
(***************************************************************************)
(* Model of the HMLV job-shop simulator core:                              *)
(*   - engine/release_control.py : release_jobs, token_balance             *)
(*   - engine/dispatch.py        : select_next_job, compute_priority       *)
(*   - manufacturing_module.py   : create_run_manifest, run_simulation     *)
(*   - engine/rework.py          : apply_rework_if_needed                  *)
(*   - engine/failures.py        : next_downtime                           *)
(*   - engine/run.py             : validate_csv_documents, run_simulation, *)
(*                                 collect_artifacts, store_artifact,      *)
(*                                 load_artifact                           *)
(* Each component has its own specification (SpecRelease, SpecDispatch,    *)
(* SpecPriority, SpecRun, SpecRework, SpecFailures, SpecValidate,          *)
(* SpecArtifacts); a specification leaves the other components' variables  *)
(* alone.                                                                  *)
(***************************************************************************)
EXTENDS Integers, Sequences, FiniteSets, TLC

VARIABLES
    \* ---- release_control.py ----
    state,          \* the `state` dict handed to release_jobs (pending, wip_caps, tokens, wip_counts)
    policy,         \* the `policy` argument
    rpc,            \* position of the call: "idle" | "loop" | "done"
    idx,            \* 1-based position of the `for job in pending` loop
    selected,       \* local `selected`
    local_tokens,   \* local `local_tokens`
    local_wip,      \* local `local_wip`
    ret,            \* value returned by the call
    calls,          \* number of calls started on `state`
    first_ret,      \* value returned by the first call
    \* ---- dispatch.py ----
    queue_state,    \* the `queue_state` dict handed to select_next_job
    rule,           \* the `rule` argument
    now,            \* the `now` argument
    dpc,            \* position of the call: "idle" | "done"
    dret,           \* value returned by select_next_job
    \* ---- manufacturing_module.py ----
    scenario,       \* the scenario document (jobs, setup_matrix)
    seed,           \* the seed handed to create_run_manifest
    clock,          \* the wall clock read by datetime.utcnow()
    run_no,         \* which run of (scenario, seed) is under way: 1 or 2
    spc,            \* position of the run: "new" | "manifest" | "loop" | "completed" | "raised"
    manifest,       \* the RunManifest
    base_time,      \* local `base_time`
    jidx,           \* 1-based position of the `for idx, job in enumerate(jobs_input)` loop
    last_family,    \* local `last_family`
    machine_available_at,   \* local `machine_available_at`
    timeline_rows,  \* local `timeline_rows`, written to timeline.csv
    machine_work_seconds,   \* local `machine_work_seconds`
    job_completion_times,   \* local `job_completion_times`
    kpi_report,     \* local `kpi_report`, written to kpis.json
    handle,         \* the RunResultHandle
    prev_timeline,  \* timeline of the first run
    prev_kpi,       \* KPI report of the first run
    \* ---- rework.py ----
    step,           \* the `step` the caller holds and hands to apply_rework_if_needed
    outcome,        \* the `outcome` argument of the last call
    max_rework_attempts,    \* the `max_rework_attempts` argument
    rework_ret,     \* value returned by the last call
    rework_trace,   \* values returned by the calls so far, in order
    first_step,     \* the step handed to the first call
    to_reexecute,   \* the last call returned a step that was not yet executed again
    all_failed,     \* every outcome so far was inspection_failed and rework_allowed
    all_fed_back,   \* every returned step was executed again before the next call
    \* ---- failures.py ----
    down_args,      \* the arguments of next_downtime
    down_ret,       \* the DowntimeWindow returned by the last call
    down_prev,      \* the DowntimeWindow returned by the call before
    down_calls,     \* number of calls made with down_args
    \* ---- run.py: validate_csv_documents ----
    documents,      \* the `documents` argument
    report,         \* the ValidationReport returned
    \* ---- run.py: artifacts ----
    files,          \* the file system: absolute path -> bytes
    store_log,      \* the calls of store_artifact so far, with what they returned
    run_handles,    \* run ids of the RunResultHandles run_simulation returned
    art_result      \* what the last collect_artifacts / load_artifact returned

vars_rel == <<state, policy, rpc, idx, selected, local_tokens, local_wip, ret, calls, first_ret>>

vars_disp == <<queue_state, rule, now, dpc, dret>>

vars_run == <<scenario, seed, clock, run_no, spc, manifest, base_time, jidx, last_family,
              machine_available_at, timeline_rows, machine_work_seconds,
              job_completion_times, kpi_report, handle, prev_timeline, prev_kpi>>

vars_rework == <<step, outcome, max_rework_attempts, rework_ret, rework_trace, first_step,
                 to_reexecute, all_failed, all_fed_back>>

vars_down == <<down_args, down_ret, down_prev, down_calls>>

vars_val == <<documents, report>>

vars_art == <<files, store_log, run_handles, art_result>>

vars == <<vars_rel, vars_disp, vars_run, vars_rework, vars_down, vars_val, vars_art>>

\* what a specification of one component leaves alone
vars_notrel == <<vars_disp, vars_run, vars_rework, vars_down, vars_val, vars_art>>

vars_notdisp == <<vars_rel, vars_run, vars_rework, vars_down, vars_val, vars_art>>

vars_notrun == <<vars_rel, vars_disp, vars_rework, vars_down, vars_val, vars_art>>

vars_notrework == <<vars_rel, vars_disp, vars_run, vars_down, vars_val, vars_art>>

vars_notdown == <<vars_rel, vars_disp, vars_run, vars_rework, vars_val, vars_art>>

vars_notval == <<vars_rel, vars_disp, vars_run, vars_rework, vars_down, vars_art>>

vars_notart == <<vars_rel, vars_disp, vars_run, vars_rework, vars_down, vars_val>>

(***************************************************************************)
(* Bounds of the model                                                     *)
(***************************************************************************)
MaxPending == 2
MaxTok == 1

(***************************************************************************)
(* Python helpers                                                          *)
(***************************************************************************)
\* a missing dict entry / falsy job id
NoId == ""

\* dict.get(k, d)
Get(m, k, d) == IF k \in DOMAIN m THEN m[k] ELSE d

\* the empty dict
EmptyMap == [k \in {} |-> 0]

\* all dicts with keys among K and values in V
PartialMaps(K, V) == UNION {[D -> V] : D \in SUBSET K}

\* m with m[k] = v
Put(m, k, v) == [x \in DOMAIN m \cup {k} |-> IF x = k THEN v ELSE m[x]]

(***************************************************************************)
(* engine/release_control.py                                               *)
(***************************************************************************)
RouteKeys == {"R1", "default"}
CapKeys == {"R1", "global"}
TokenKeys == {"R1", "global"}
CapVals == {0, 1, 2}
WipVals == {0, 1}
Policies == {"CONWIP", "POLCA", "conwip"}
PositionIds == <<"jobA", "jobB", "jobC", "jobD">>

\* the jobs that may stand at position i of state['pending']
JobsAt(i) ==
    { [job_id |-> PositionIds[i], route_id |-> "R1", route |-> NoId],
      [job_id |-> PositionIds[i], route_id |-> NoId, route |-> "R1"],
      [job_id |-> PositionIds[i], route_id |-> NoId, route |-> NoId],
      [job_id |-> NoId, route_id |-> "R1", route |-> NoId] }

PendingLists ==
    UNION { {p \in [1..n -> UNION {JobsAt(i) : i \in 1..n}] :
                \A i \in 1..n : p[i] \in JobsAt(i)} : n \in 0..MaxPending }

SystemStates ==
    { [pending |-> p, wip_caps |-> c, tokens |-> t, wip_counts |-> w] :
        p \in PendingLists,
        c \in PartialMaps(CapKeys, CapVals),
        t \in PartialMaps(TokenKeys, 0..MaxTok),
        w \in {EmptyMap} \cup [RouteKeys -> WipVals] }

_route_of(job) ==
    IF job.route_id # NoId THEN job.route_id
    ELSE IF job.route # NoId THEN job.route
    ELSE "default"

global_cap(st) == Get(st.wip_caps, "global", Len(st.pending))

_route_cap(st, route) == Get(st.wip_caps, route, global_cap(st))

\* mutant: the policy name is matched whatever its case
IsTokenPolicy_AnyCase(p) == p \in {"CONWIP", "POLCA", "conwip"}

IsTokenPolicy(p) == p \in {"CONWIP", "POLCA"}

\* mutant: the break test is off by one
CapReached_OffByOne(sel, gcap) == Len(sel) > gcap

CapReached(sel, gcap) == Len(sel) >= gcap

\* mutant: the route cap is not consulted
RouteTokenOk_NoCap(current, cap, available_tokens) ==
    available_tokens > 0

RouteTokenOk(current, cap, available_tokens) ==
    current < cap /\ available_tokens > 0

\* mutant: the global pool is drawn from without testing its balance
GlobalTokenOk_NoBalance(current, cap, lt) ==
    current < cap /\ "global" \in DOMAIN lt

GlobalTokenOk(current, cap, lt) ==
    current < cap /\ "global" \in DOMAIN lt /\ lt["global"] > 0

\* mutant: the token is not reserved
TakeToken_NotReserved(lt, key, balance) == Put(lt, key, balance)

TakeToken(lt, key, balance) == Put(lt, key, balance - 1)

\* mutant: the admission is not counted as WIP
AddWip_NotCounted(lw, route, current) == Put(lw, route, current)

AddWip(lw, route, current) == Put(lw, route, current + 1)

\* mutant: the local views alias the dicts of `state`
InputAfterLocalWrite_Aliased(st, lt, lw) ==
    [st EXCEPT !.tokens = lt, !.wip_counts = lw]

\* the input state after a write to the local views: local_tokens and
\* local_wip are fresh dicts, so the write does not reach `state`
InputAfterLocalWrite(st, lt, lw) == st

\* mutant: the fallback releases the tail of the queue
FifoResult_Tail(pending) ==
    IF pending[Len(pending)].job_id # NoId THEN <<pending[Len(pending)].job_id>> ELSE <<>>

FifoResult(pending) ==
    IF pending[1].job_id # NoId THEN <<pending[1].job_id>> ELSE <<>>

token_balance(route, st) == Get(st.tokens, route, 0)

RelIdle ==
    /\ rpc = "idle" /\ idx = 0 /\ selected = <<>>
    /\ local_tokens = EmptyMap /\ local_wip = EmptyMap /\ ret = <<>>

\* the dispatch component at rest
DispFrozen ==
    /\ queue_state = [jobs |-> <<>>]
    /\ rule = ""
    /\ now = [kind |-> "naive", at |-> 0]
    /\ dpc = "idle"
    /\ dret = ""

\* None
None == [none |-> TRUE]

\* last_family = None
NoFamily == "<None>"

\* the locals of run_simulation before a run
RunIdle ==
    /\ spc = "new"
    /\ manifest = None
    /\ base_time = 0
    /\ jidx = 0
    /\ last_family = NoFamily
    /\ machine_available_at = 0
    /\ timeline_rows = <<>>
    /\ machine_work_seconds = EmptyMap
    /\ job_completion_times = EmptyMap
    /\ kpi_report = None
    /\ handle = None

\* the run component at rest
RunFrozen ==
    /\ scenario = [jobs |-> <<>>, setup_matrix |-> <<>>, dispatch_rule |-> "EDD"]
    /\ seed = 0
    /\ clock = 0
    /\ run_no = 1
    /\ RunIdle
    /\ prev_timeline = <<>>
    /\ prev_kpi = None

\* InspectionOutcome(): both flags default to False
DefaultOutcome == [inspection_failed |-> FALSE, rework_allowed |-> FALSE]

\* a step that is not a dict
OpaqueStep ==
    [kind |-> "opaque", has_counter |-> FALSE, counter |-> [kind |-> "int", v |-> 0]]

\* the rework component before its first call on a step
ReworkIdle ==
    /\ outcome = DefaultOutcome
    /\ rework_ret = None
    /\ rework_trace = <<>>
    /\ first_step = step
    /\ to_reexecute = FALSE
    /\ all_failed = TRUE
    /\ all_fed_back = TRUE

\* the rework component at rest
ReworkFrozen ==
    /\ step = OpaqueStep
    /\ max_rework_attempts = 1
    /\ ReworkIdle

\* the downtime component at rest
DownFrozen ==
    /\ down_args = [machine_id |-> "M1", now |-> 0, mtbf_hours |-> 24, mttr_hours |-> 4,
                    rng |-> "None"]
    /\ down_ret = None
    /\ down_prev = None
    /\ down_calls = 0

\* the validation component at rest
ValFrozen ==
    /\ documents = <<>>
    /\ report = None

\* the artifact store at rest: no file written, no call made
ArtFrozen ==
    /\ files = EmptyMap
    /\ store_log = <<>>
    /\ run_handles = {}
    /\ art_result = None

InitRelease ==
    /\ state \in SystemStates
    /\ policy \in Policies
    /\ RelIdle
    /\ calls = 0
    /\ first_ret = <<>>
    /\ DispFrozen
    /\ RunFrozen
    /\ ReworkFrozen
    /\ DownFrozen
    /\ ValFrozen
    /\ ArtFrozen

\* lines 47-49: nothing pending
CallEmpty ==
    /\ rpc = "idle" /\ calls < 2
    /\ state.pending = <<>>
    /\ calls' = calls + 1
    /\ ret' = <<>>
    /\ rpc' = "done"
    /\ UNCHANGED <<vars_notrel, state, policy, idx, selected, local_tokens, local_wip, first_ret>>

\* lines 51-73: CONWIP / POLCA set up the local views
CallTokenPolicy ==
    /\ rpc = "idle" /\ calls < 2
    /\ state.pending # <<>>
    /\ IsTokenPolicy(policy)
    /\ calls' = calls + 1
    /\ selected' = <<>>
    /\ local_tokens' = state.tokens
    /\ local_wip' = state.wip_counts
    /\ idx' = 1
    /\ rpc' = "loop"
    /\ UNCHANGED <<vars_notrel, state, policy, ret, first_ret>>

\* lines 101-103: any other policy releases the head of the queue
CallFifo ==
    /\ rpc = "idle" /\ calls < 2
    /\ state.pending # <<>>
    /\ ~IsTokenPolicy(policy)
    /\ calls' = calls + 1
    /\ ret' = FifoResult(state.pending)
    /\ rpc' = "done"
    /\ UNCHANGED <<vars_notrel, state, policy, idx, selected, local_tokens, local_wip, first_ret>>

InLoop == rpc = "loop" /\ idx <= Len(state.pending)

\* lines 76-77 then 99
LoopBreak ==
    /\ InLoop
    /\ CapReached(selected, global_cap(state))
    /\ ret' = selected
    /\ rpc' = "done"
    /\ UNCHANGED <<vars_notrel, state, policy, idx, selected, local_tokens, local_wip, calls, first_ret>>

\* lines 78-80
SkipNoId ==
    /\ InLoop
    /\ ~CapReached(selected, global_cap(state))
    /\ state.pending[idx].job_id = NoId
    /\ idx' = idx + 1
    /\ UNCHANGED <<vars_notrel, state, policy, rpc, selected, local_tokens, local_wip, ret, calls, first_ret>>

\* lines 81-90
AdmitRouteToken ==
    /\ InLoop
    /\ ~CapReached(selected, global_cap(state))
    /\ state.pending[idx].job_id # NoId
    /\ LET job == state.pending[idx]
           route == _route_of(job)
           cap == _route_cap(state, route)
           current == Get(local_wip, route, 0)
           available_tokens == Get(local_tokens, route, 0)
       IN  /\ RouteTokenOk(current, cap, available_tokens)
           /\ selected' = Append(selected, job.job_id)
           /\ local_tokens' = TakeToken(local_tokens, route, available_tokens)
           /\ local_wip' = AddWip(local_wip, route, current)
           /\ state' = InputAfterLocalWrite(state, local_tokens', local_wip')
    /\ idx' = idx + 1
    /\ UNCHANGED <<vars_notrel, policy, rpc, ret, calls, first_ret>>

\* lines 91-97
AdmitGlobalToken ==
    /\ InLoop
    /\ ~CapReached(selected, global_cap(state))
    /\ state.pending[idx].job_id # NoId
    /\ LET job == state.pending[idx]
           route == _route_of(job)
           cap == _route_cap(state, route)
           current == Get(local_wip, route, 0)
           available_tokens == Get(local_tokens, route, 0)
       IN  /\ ~RouteTokenOk(current, cap, available_tokens)
           /\ GlobalTokenOk(current, cap, local_tokens)
           /\ selected' = Append(selected, job.job_id)
           /\ local_tokens' = TakeToken(local_tokens, "global", local_tokens["global"])
           /\ local_wip' = AddWip(local_wip, route, current)
           /\ state' = InputAfterLocalWrite(state, local_tokens', local_wip')
    /\ idx' = idx + 1
    /\ UNCHANGED <<vars_notrel, policy, rpc, ret, calls, first_ret>>

\* mutant: a blocked job ends the loop, and the jobs behind it wait
SkipBlocked_Breaks ==
    /\ InLoop
    /\ ~CapReached(selected, global_cap(state))
    /\ state.pending[idx].job_id # NoId
    /\ LET job == state.pending[idx]
           route == _route_of(job)
           cap == _route_cap(state, route)
           current == Get(local_wip, route, 0)
           available_tokens == Get(local_tokens, route, 0)
       IN  /\ ~RouteTokenOk(current, cap, available_tokens)
           /\ ~GlobalTokenOk(current, cap, local_tokens)
    /\ ret' = selected
    /\ rpc' = "done"
    /\ UNCHANGED <<vars_notrel, state, policy, idx, selected, local_tokens, local_wip, calls, first_ret>>

\* line 98
SkipBlocked ==
    /\ InLoop
    /\ ~CapReached(selected, global_cap(state))
    /\ state.pending[idx].job_id # NoId
    /\ LET job == state.pending[idx]
           route == _route_of(job)
           cap == _route_cap(state, route)
           current == Get(local_wip, route, 0)
           available_tokens == Get(local_tokens, route, 0)
       IN  /\ ~RouteTokenOk(current, cap, available_tokens)
           /\ ~GlobalTokenOk(current, cap, local_tokens)
    /\ idx' = idx + 1
    /\ UNCHANGED <<vars_notrel, state, policy, rpc, selected, local_tokens, local_wip, ret, calls, first_ret>>

\* line 99 after the loop ran out of pending jobs
LoopEnd ==
    /\ rpc = "loop" /\ idx > Len(state.pending)
    /\ ret' = selected
    /\ rpc' = "done"
    /\ UNCHANGED <<vars_notrel, state, policy, idx, selected, local_tokens, local_wip, calls, first_ret>>

\* the caller keeps the first result and calls again on the same state
CallAgain ==
    /\ rpc = "done" /\ calls = 1
    /\ first_ret' = ret
    /\ rpc' = "idle"
    /\ idx' = 0
    /\ selected' = <<>>
    /\ local_tokens' = EmptyMap
    /\ local_wip' = EmptyMap
    /\ ret' = <<>>
    /\ UNCHANGED <<vars_notrel, state, policy, calls>>

NextRelease ==
    \/ CallEmpty
    \/ CallTokenPolicy
    \/ CallFifo
    \/ LoopBreak
    \/ SkipNoId
    \/ AdmitRouteToken
    \/ AdmitGlobalToken
    \/ SkipBlocked
    \/ LoopEnd
    \/ CallAgain

SpecRelease == InitRelease /\ [][NextRelease]_vars

(***************************************************************************)
(* Claims about release_jobs / token_balance (checked under SpecRelease)   *)
(***************************************************************************)
InSeq(x, sq) == \E j \in 1..Len(sq) : sq[j] = x

\* number of jobs of route r among the returned admissions
AdmittedOn(r) ==
    Cardinality({i \in 1..Len(state.pending) :
        /\ state.pending[i].job_id # NoId
        /\ InSeq(state.pending[i].job_id, ret)
        /\ _route_of(state.pending[i]) = r})

PreWipWithinCaps ==
    \A r \in RouteKeys : Get(state.wip_counts, r, 0) <= _route_cap(state, r)

PostWipWithinCaps ==
    \A r \in RouteKeys :
        Get(state.wip_counts, r, 0) + AdmittedOn(r) <= _route_cap(state, r)

\* C2 as stated: after a release_jobs call under ANY policy name on a state
\* whose per-route WIP is within its caps, WIP before the call plus the jobs
\* admitted by the call stays within each route's cap.
C2_CapRespectedAnyPolicy ==
    (rpc = "done" /\ PreWipWithinCaps) => PostWipWithinCaps

\* C2 amended: the same, for calls whose policy is the literal CONWIP or POLCA.
C2_CapRespectedTokenPolicy ==
    (rpc = "done" /\ IsTokenPolicy(policy) /\ PreWipWithinCaps) => PostWipWithinCaps

\* a CONWIP/POLCA call that filled a route with WIP already on it up to its
\* cap and left a pending job of that route out
C2_Witness ==
    /\ rpc = "done" /\ IsTokenPolicy(policy) /\ PreWipWithinCaps
    /\ \E r \in RouteKeys :
        /\ Get(state.wip_counts, r, 0) >= 1
        /\ AdmittedOn(r) >= 1
        /\ Get(state.wip_counts, r, 0) + AdmittedOn(r) = _route_cap(state, r)
        /\ \E i \in 1..Len(state.pending) :
            /\ state.pending[i].job_id # NoId
            /\ _route_of(state.pending[i]) = r
            /\ ~InSeq(state.pending[i].job_id, ret)

\* C3: token non-negativity. Every balance of the call's bookkeeping stays
\* >= 0, and a balance only drops when it was >= 1 before the step.
C3_TokensNonNegative ==
    [][ /\ \A k \in DOMAIN local_tokens' : local_tokens'[k] >= 0
        /\ \A k \in DOMAIN local_tokens \cap DOMAIN local_tokens' :
              local_tokens'[k] < local_tokens[k] => local_tokens[k] >= 1 ]_vars

\* a call that drained both a route pool and the global pool to 0
C3_Witness ==
    /\ rpc = "done" /\ Len(ret) = 2
    /\ "R1" \in DOMAIN local_tokens /\ "global" \in DOMAIN local_tokens
    /\ local_tokens["R1"] = 0 /\ state.tokens["R1"] = 1
    /\ local_tokens["global"] = 0 /\ state.tokens["global"] = 1

\* C4 as stated: under CONWIP/POLCA a step that consumes a global token is
\* only taken for a job whose route has no entry in the token table; a route
\* whose entry is exhausted (0) never draws from the global pool.
C4_GlobalOnlyWithoutRouteEntry ==
    [][ (/\ rpc = "loop" /\ rpc' = "loop"
         /\ "global" \in DOMAIN local_tokens
         /\ local_tokens'["global"] < local_tokens["global"])
        => _route_of(state.pending[idx]) \notin DOMAIN state.tokens ]_vars

\* C5: release_jobs is side-effect-free. No step of a call changes `state`,
\* token_balance reads the same before and after, and a second call on the
\* same state returns what the first returned.
C5_SideEffectFree ==
    [][ /\ state' = state
        /\ \A r \in RouteKeys \cup {"global"} :
              token_balance(r, state') = token_balance(r, state)
        /\ (rpc' = "done" /\ calls' = 2) => ret' = first_ret' ]_vars

\* a second CONWIP/POLCA call returned after both calls admitted jobs and
\* consumed tokens in their bookkeeping
C5_Witness ==
    /\ rpc = "done" /\ calls = 2 /\ IsTokenPolicy(policy)
    /\ Len(ret) >= 1 /\ first_ret = ret
    /\ local_tokens # state.tokens /\ local_wip # state.wip_counts

\* the scenario of C6
C6_Scenario ==
    /\ policy = "CONWIP"
    /\ Len(state.pending) = 2
    /\ state.pending[1].job_id = "jobA" /\ _route_of(state.pending[1]) = "R1"
    /\ state.pending[2].job_id = "jobB" /\ _route_of(state.pending[2]) = "R1"
    /\ state.wip_caps = [k \in {"R1"} |-> 1]
    /\ state.tokens = [k \in {"R1"} |-> 1]
    /\ Get(state.wip_counts, "R1", 0) = 0

\* C6 as stated: in the scenario the call admits exactly [jobA] and the
\* snapshot it returns shows R1's balance as 0. The call returns the job-id
\* list only, so the token table the caller holds after the call is
\* state['tokens'], read by token_balance.
C6_ReturnedSnapshotShowsZero ==
    (C6_Scenario /\ rpc = "done")
        => (ret = <<"jobA">> /\ token_balance("R1", state) = 0)

\* C6 amended: in the scenario the call admits exactly [jobA]; R1's balance
\* is 0 in the call's local bookkeeping, which is not returned, and
\* token_balance("R1", state) still reads 1.
C6_ScenarioAdmitsJobA ==
    (C6_Scenario /\ rpc = "done")
        => /\ ret = <<"jobA">>
           /\ local_tokens["R1"] = 0
           /\ token_balance("R1", state) = 1

C6_Witness == C6_Scenario /\ rpc = "done" /\ calls = 1

\* position of the last pending job that was admitted, 0 when none was
LastAdmittedPos ==
    LET admitted == {i \in 1..Len(state.pending) :
                        state.pending[i].job_id # NoId
                        /\ InSeq(state.pending[i].job_id, ret)}
    IN  IF admitted = {} THEN 0
        ELSE CHOOSE i \in admitted : \A j \in admitted : j <= i

\* whether the job at position i could be admitted against the bookkeeping
Admissible(i) ==
    LET route == _route_of(state.pending[i])
        cap == _route_cap(state, route)
        current == Get(local_wip, route, 0)
    IN  /\ state.pending[i].job_id # NoId
        /\ \/ RouteTokenOk(current, cap, Get(local_tokens, route, 0))
           \/ GlobalTokenOk(current, cap, local_tokens)

\* C7: under CONWIP/POLCA the admissions of one call never exceed the global
\* cap (wip_caps['global'], else the number of pending jobs); once the cap is
\* reached the loop examines no further pending job; a cap of 0 admits nothing.
C7_GlobalCapBoundsAdmissions ==
    (IsTokenPolicy(policy) /\ state.pending # <<>>) =>
        /\ rpc = "loop" => Len(selected) <= global_cap(state)
        /\ rpc = "done" =>
            /\ Len(ret) <= global_cap(state)
            /\ global_cap(state) = 0 => (ret = <<>> /\ idx = 1)
            /\ Len(ret) >= global_cap(state) => idx - 1 = LastAdmittedPos

\* the loop stopped at the global cap in front of a job it could have admitted
C7_Witness ==
    /\ IsTokenPolicy(policy) /\ rpc = "done"
    /\ global_cap(state) >= 1 /\ Len(ret) = global_cap(state)
    /\ "global" \in DOMAIN state.wip_caps
    /\ idx <= Len(state.pending)
    /\ Admissible(idx)

\* C8 as stated: a policy other than the literals CONWIP / POLCA returns
\* exactly the job id of the first pending job, and [] when nothing is pending.
C8_FifoReturnsHeadId ==
    (rpc = "done" /\ ~IsTokenPolicy(policy)) =>
        IF state.pending = <<>> THEN ret = <<>>
        ELSE ret = <<state.pending[1].job_id>>

\* C8 amended: such a policy returns exactly the job id of the first pending
\* job when that job has one, and [] when nothing is pending or the first
\* pending job has no job id.
C8_FifoReturnsHeadIdIfAny ==
    (rpc = "done" /\ ~IsTokenPolicy(policy)) =>
        IF state.pending = <<>> THEN ret = <<>>
        ELSE IF state.pending[1].job_id = NoId THEN ret = <<>>
        ELSE ret = <<state.pending[1].job_id>>

\* the lower-case policy name released the head of a two-job queue
C8_Witness ==
    /\ rpc = "done" /\ policy = "conwip"
    /\ Len(state.pending) = 2
    /\ ret = <<"jobA">>

\* the state with its wip_caps, wip_counts and tokens left out
WithoutTables(st) ==
    [st EXCEPT !.wip_caps = EmptyMap, !.wip_counts = EmptyMap, !.tokens = EmptyMap]

\* the route of the head of the queue has no token and no room under its cap
HeadBlocked ==
    LET route == _route_of(state.pending[1])
    IN  /\ Get(state.tokens, route, 0) = 0
        /\ Get(state.tokens, "global", 0) = 0
        /\ Get(state.wip_counts, route, 0) >= _route_cap(state, route)

\* C28: under a policy name other than the literals CONWIP / POLCA the call
\* returns what it returns for the same pending list without wip_caps,
\* wip_counts and tokens; the head of the queue (when it has a job id) is
\* released also when its route's WIP is at its cap or its route has no token.
C28_FifoIgnoresCapsAndTokens ==
    (rpc = "done" /\ policy \notin {"CONWIP", "POLCA"} /\ state.pending # <<>>) =>
        /\ ret = FifoResult(WithoutTables(state).pending)
        /\ state.pending[1].job_id # NoId => ret = <<state.pending[1].job_id>>

\* the fallback released jobA of R1 with R1 at its cap and no token anywhere
C28_Witness ==
    /\ rpc = "done" /\ policy = "conwip"
    /\ state.pending # <<>>
    /\ _route_of(state.pending[1]) = "R1"
    /\ "R1" \in DOMAIN state.wip_caps /\ state.wip_caps["R1"] = 1
    /\ Get(state.wip_counts, "R1", 0) = 1
    /\ HeadBlocked
    /\ state.tokens # EmptyMap
    /\ ret = <<"jobA">>

\* the job ids of a list of jobs, in order
JobIdsOf(jobs) == [i \in 1..Len(jobs) |-> jobs[i].job_id]

\* s is a subsequence of t
RECURSIVE IsSubsequence(_, _)
IsSubsequence(s, t) ==
    IF s = <<>> THEN TRUE
    ELSE IF t = <<>> THEN FALSE
    ELSE IF Head(s) = Head(t) THEN IsSubsequence(Tail(s), Tail(t))
    ELSE IsSubsequence(s, Tail(t))

\* the pending job at position i cannot be admitted: it has no job id, its
\* route is at its cap, or neither its route nor the global pool has a token
CannotAdmit(i) ==
    LET route == _route_of(state.pending[i])
    IN  \/ state.pending[i].job_id = NoId
        \/ Get(local_wip, route, 0) >= _route_cap(state, route)
        \/ (Get(local_tokens, route, 0) <= 0 /\ Get(local_tokens, "global", 0) <= 0)

\* C29: no head-of-line blocking under CONWIP/POLCA. Below the global cap a
\* pending job that cannot be admitted is passed over: the step takes no
\* token, changes no WIP count and the loop goes on to the next pending
\* job; the returned list is a subsequence of the pending job ids.
C29_NoHeadOfLineBlocking ==
    [][ (/\ policy \in {"CONWIP", "POLCA"} /\ rpc = "loop"
         /\ idx <= Len(state.pending)
         /\ Len(selected) < global_cap(state)) =>
          /\ CannotAdmit(idx) =>
                /\ selected' = selected
                /\ local_tokens' = local_tokens
                /\ local_wip' = local_wip
                /\ rpc' = "loop" /\ idx' = idx + 1
          /\ rpc' = "done" => IsSubsequence(ret', JobIdsOf(state.pending))
          /\ IsSubsequence(selected', JobIdsOf(state.pending))
      ]_vars

\* jobA of R1, which is at its cap, was passed over and jobB behind it admitted
C29_Witness ==
    /\ rpc = "done" /\ policy \in {"CONWIP", "POLCA"}
    /\ Len(state.pending) = 2
    /\ state.pending[1].job_id = "jobA" /\ _route_of(state.pending[1]) = "R1"
    /\ Get(state.wip_counts, "R1", 0) >= _route_cap(state, "R1")
    /\ local_tokens # state.tokens
    /\ ret = <<"jobB">>

\* the values of a dict added up
RECURSIVE SumKeys(_, _)
SumKeys(m, K) ==
    IF K = {} THEN 0
    ELSE LET k == CHOOSE x \in K : TRUE
         IN  m[k] + SumKeys(m, K \ {k})

TokenTotal(m) == SumKeys(m, DOMAIN m)

\* number of pending jobs of route r whose id is in sel
SelectedOn(r, sel) ==
    Cardinality({i \in 1..Len(state.pending) :
        /\ state.pending[i].job_id # NoId
        /\ InSeq(state.pending[i].job_id, sel)
        /\ _route_of(state.pending[i]) = r})

\* C27: token conservation within one CONWIP/POLCA call. A step that admits
\* a job takes exactly one token from exactly one pool, the pool of the
\* job's route or the global pool, and raises the WIP of the job's route,
\* and of no other route, by one; over the call the balances of the
\* bookkeeping have dropped by the number of admitted jobs in total.
C27_TokenConservation ==
    [][ (IsTokenPolicy(policy) /\ rpc = "loop") =>
          /\ selected' # selected =>
                LET route == _route_of(state.pending[idx])
                IN  /\ selected' = Append(selected, state.pending[idx].job_id)
                    /\ DOMAIN local_tokens' = DOMAIN local_tokens
                    /\ \E k \in {route, "global"} \cap DOMAIN local_tokens :
                          /\ local_tokens'[k] = local_tokens[k] - 1
                          /\ \A x \in DOMAIN local_tokens \ {k} :
                                local_tokens'[x] = local_tokens[x]
                    /\ Get(local_wip', route, 0) = Get(local_wip, route, 0) + 1
                    /\ \A r \in (DOMAIN local_wip' \cup DOMAIN local_wip) \ {route} :
                          Get(local_wip', r, 0) = Get(local_wip, r, 0)
          /\ TokenTotal(state.tokens) - TokenTotal(local_tokens') = Len(selected')
          /\ \A r \in RouteKeys :
                Get(local_wip', r, 0) - Get(state.wip_counts, r, 0) = SelectedOn(r, selected')
      ]_vars

\* a call admitted jobA of R1 on R1's token and jobB of the default route
\* on the global token
C27_Witness ==
    /\ rpc = "done" /\ IsTokenPolicy(policy)
    /\ ret = <<"jobA", "jobB">>
    /\ _route_of(state.pending[1]) = "R1" /\ _route_of(state.pending[2]) = "default"
    /\ state.tokens = [k \in {"R1", "global"} |-> 1]
    /\ local_tokens = [k \in {"R1", "global"} |-> 0]
    /\ Get(local_wip, "R1", 0) = Get(state.wip_counts, "R1", 0) + 1
    /\ Get(local_wip, "default", 0) = Get(state.wip_counts, "default", 0) + 1

(***************************************************************************)
(* engine/dispatch.py                                                      *)
(* Times are whole hours since an epoch; for a timezone-aware datetime the *)
(* time is its UTC instant. A priority is the float num/den (den > 0)     *)
(* plus `tiny` units of 3.6e-27, a part that a float keeps only next to a  *)
(* zero. The rules modelled are EDD, SPT, LSN and an unknown name.         *)
(***************************************************************************)
MaxQueue == 2
MaxTime == 2
SecondsPerHour == 3600
\* 1e-6 is 1/Million
Million == 1000000

Rules == {"EDD", "edd", "SPT", "LSN", "FIFO"}
DispatchIds == <<"job-1", "job-2", "job-3", "job-4">>

\* due_date: absent, an unparseable string, or a naive / aware datetime
NoneDue == [kind |-> "none", at |-> 0]

DueDates ==
    {NoneDue, [kind |-> "text", at |-> 0]}
        \cup {[kind |-> "naive", at |-> t] : t \in 0..MaxTime}
        \cup {[kind |-> "aware", at |-> t] : t \in 0..1}

\* process_time_mean: a number of hours or a non-numeric string
ProcessTimes ==
    {[kind |-> "num", v |-> 1], [kind |-> "num", v |-> 2], [kind |-> "text", v |-> 0]}

\* process times of v * 1e-30 hours: positive floats far below the spacing
\* of the floats around 1e-6
TinyProcessTimes == {[kind |-> "tiny", v |-> k] : k \in 1..2}

Nows ==
    {[kind |-> "naive", at |-> t] : t \in 0..MaxTime}
        \cup {[kind |-> "aware", at |-> t] : t \in 0..1}

QueueJobsAt(i) ==
    {[job_id |-> DispatchIds[i], due_date |-> d, process_time_mean |-> p] :
        d \in DueDates, p \in ProcessTimes}

\* the queues of n jobs
RECURSIVE QueuesOfLen(_)
QueuesOfLen(n) ==
    IF n = 0 THEN {<<>>}
    ELSE {Append(q, j) : q \in QueuesOfLen(n - 1), j \in QueueJobsAt(n)}

\* the queues of at most m jobs
QueueLists(m) == UNION {QueuesOfLen(n) : n \in 0..m}

\* a float as the exact rational n/d
Rat(n, d) == [num |-> n, den |-> d, tiny |-> 0]

\* the float t * 3.6e-27
Tiny(t) == [num |-> 0, den |-> 1, tiny |-> t]

\* an/ad > bn/bd for ad, bd > 0, by whole parts and then remainders
RECURSIVE RatGT(_, _, _, _)
RatGT(an, ad, bn, bd) ==
    IF an \div ad # bn \div bd THEN an \div ad > bn \div bd
    ELSE IF an % ad = 0 THEN FALSE
    ELSE IF bn % bd = 0 THEN TRUE
    ELSE RatGT(bd, bn % bd, ad, an % ad)

\* a > b on floats
GT(a, b) ==
    \/ RatGT(a.num, a.den, b.num, b.den)
    \/ (~RatGT(b.num, b.den, a.num, a.den) /\ a.tiny > b.tiny)

\* str.upper() on the rule names
Upper(r) == IF r = "edd" THEN "EDD" ELSE r

_parse_due(due) ==
    IF due.kind \in {"naive", "aware"} THEN due ELSE NoneDue

\* float(pt_raw), 0.0 when it raises: `whole` hours plus `tiny` * 1e-30 hours
PtFloat(pt_raw) ==
    CASE pt_raw.kind = "num" -> [whole |-> pt_raw.v, tiny |-> 0]
      [] pt_raw.kind = "tiny" -> [whole |-> 0, tiny |-> pt_raw.v]
      [] OTHER -> [whole |-> 0, tiny |-> 0]

\* 1.0 / (pt + 1e-6): the float sum pt + 1e-6 is 1e-6 itself for a pt below
\* half the spacing of the floats around 1e-6 (about 1e-22)
InversePlusEpsilon(pt) == Rat(Million, pt.whole * Million + 1)

\* an exception leaving a call
Raised == [raised |-> TRUE]
IsRaised(p) == "raised" \in DOMAIN p

\* due_dt - now raises TypeError when one is naive and the other aware
SubtractRaises(due_dt, nw) == due_dt.kind # nw.kind

\* (due_dt - now).total_seconds()
SecondsToDue(due_dt, nw) == (due_dt.at - nw.at) * SecondsPerHour

\* -(seconds - pt * 3600.0): the tiny part of pt survives only when the
\* rest is zero
NegatedSlack(seconds, pt) ==
    IF seconds - pt.whole * SecondsPerHour = 0 THEN Tiny(pt.tiny)
    ELSE Rat(0 - (seconds - pt.whole * SecondsPerHour), 1)

\* the body of the outer try of compute_priority (lines 75-117) and the
\* default after it (line 123)
PriorityBody(r, job, st, nw) ==
    LET rl == Upper(r)
        due_dt == _parse_due(job.due_date)
        pt == PtFloat(job.process_time_mean)
    IN  CASE rl = "EDD" ->
                IF due_dt = NoneDue THEN Rat(0, 1)
                ELSE IF SubtractRaises(due_dt, nw) THEN Raised
                ELSE Rat(0 - SecondsToDue(due_dt, nw), 1)
          [] rl = "SPT" -> InversePlusEpsilon(pt)
          [] rl = "LSN" ->
                IF due_dt = NoneDue THEN Rat(0, 1)
                ELSE IF SubtractRaises(due_dt, nw) THEN Raised
                ELSE NegatedSlack(SecondsToDue(due_dt, nw), pt)
          [] OTHER -> Rat(0, 1)

\* mutant: no outer except, the exception leaves compute_priority
OuterExcept_Propagates(value) == value

\* except Exception: return 0.0
OuterExcept(value) == IF IsRaised(value) THEN Rat(0, 1) ELSE value

compute_priority(r, job, st, nw) == OuterExcept(PriorityBody(r, job, st, nw))

\* mutant: a later job with an equal priority replaces the best one
Beats_OrEqual(prio, best_prio) == ~GT(best_prio, prio)

\* prio > best_prio
Beats(prio, best_prio) == GT(prio, best_prio)

\* what a caller of select_next_job gets when an exception leaves it
Propagated == "<exception>"

\* the for loop of select_next_job from position i on; best_idx = 0 is None
\* and best_prio is the priority of the job at best_idx; -1 when
\* compute_priority raised (the loop has no handler)
RECURSIVE SelectLoop(_, _, _, _, _)
SelectLoop(st, r, nw, i, best_idx) ==
    IF i > Len(st.jobs) THEN best_idx
    ELSE LET prio == compute_priority(r, st.jobs[i], st, nw)
         IN  IF IsRaised(prio) THEN 0 - 1
             ELSE IF best_idx = 0
                \/ Beats(prio, compute_priority(r, st.jobs[best_idx], st, nw))
             THEN SelectLoop(st, r, nw, i + 1, i)
             ELSE SelectLoop(st, r, nw, i + 1, best_idx)

select_next_job(st, r, nw) ==
    IF st.jobs = <<>> THEN ""
    ELSE LET best_idx == SelectLoop(st, r, nw, 1, 0)
         IN  IF best_idx < 0 THEN Propagated
             ELSE IF best_idx = 0 THEN st.jobs[1].job_id
             ELSE st.jobs[best_idx].job_id

\* the release component at rest
RelFrozen ==
    /\ state = [pending |-> <<>>, wip_caps |-> EmptyMap,
                tokens |-> EmptyMap, wip_counts |-> EmptyMap]
    /\ policy = "CONWIP"
    /\ RelIdle
    /\ calls = 0
    /\ first_ret = <<>>

InitDispatch ==
    /\ queue_state \in {[jobs |-> q] : q \in QueueLists(MaxQueue)}
    /\ now \in Nows
    /\ rule = ""
    /\ dpc = "idle"
    /\ dret = ""
    /\ RelFrozen
    /\ RunFrozen
    /\ ReworkFrozen
    /\ DownFrozen
    /\ ValFrozen
    /\ ArtFrozen

\* one call select_next_job(queue_state, rule, now)
Select ==
    /\ dpc = "idle"
    /\ \E r \in Rules :
        /\ rule' = r
        /\ dret' = select_next_job(queue_state, r, now)
    /\ dpc' = "done"
    /\ UNCHANGED <<vars_notdisp, queue_state, now>>

NextDispatch == Select

SpecDispatch == InitDispatch /\ [][NextDispatch]_vars

\* compute_priority on its own: a queue of two jobs whose process times
\* include the tiny ones
PriorityJobsAt(i) ==
    {[job_id |-> DispatchIds[i], due_date |-> d, process_time_mean |-> p] :
        d \in DueDates, p \in ProcessTimes \cup TinyProcessTimes}

InitPriority ==
    /\ queue_state \in {[jobs |-> <<j1, j2>>] :
                            j1 \in PriorityJobsAt(1), j2 \in PriorityJobsAt(2)}
    /\ now \in Nows
    /\ rule = ""
    /\ dpc = "idle"
    /\ dret = ""
    /\ RelFrozen
    /\ RunFrozen
    /\ ReworkFrozen
    /\ DownFrozen
    /\ ValFrozen
    /\ ArtFrozen

SpecPriority == InitPriority /\ [][NextDispatch]_vars

(***************************************************************************)
(* Claims about select_next_job / compute_priority (under SpecDispatch)    *)
(***************************************************************************)
PrioAt(i) == compute_priority(rule, queue_state.jobs[i], queue_state, now)

HasDueDate(i) == queue_state.jobs[i].due_date.kind \in {"naive", "aware"}

\* d1 < d2 on two parsed due dates (Python compares only like with like)
DueBefore(i, j) ==
    /\ HasDueDate(i) /\ HasDueDate(j)
    /\ queue_state.jobs[i].due_date.kind = queue_state.jobs[j].due_date.kind
    /\ queue_state.jobs[i].due_date.at < queue_state.jobs[j].due_date.at

\* C10 as stated: for two jobs with parseable due dates d1 < d2 and any shared
\* now the EDD priority of the first is strictly greater, and select_next_job
\* under EDD returns a job with the earliest due date whatever its position.
C10_EDDMonotone ==
    (dpc = "done" /\ Upper(rule) = "EDD") =>
        /\ \A i, j \in 1..Len(queue_state.jobs) :
              DueBefore(i, j) => GT(PrioAt(i), PrioAt(j))
        /\ (/\ queue_state.jobs # <<>>
            /\ \A i \in 1..Len(queue_state.jobs) :
                  /\ HasDueDate(i)
                  /\ queue_state.jobs[i].due_date.kind = queue_state.jobs[1].due_date.kind)
           => \E i \in 1..Len(queue_state.jobs) :
                  /\ dret = queue_state.jobs[i].job_id
                  /\ \A j \in 1..Len(queue_state.jobs) :
                        queue_state.jobs[i].due_date.at <= queue_state.jobs[j].due_date.at

\* job i has no due date, or one that does not parse
MissingDueDate(i) == queue_state.jobs[i].due_date.kind \in {"none", "text"}

\* the due date of job i parses and lies after / before the instant of now
DueInFuture(i) == HasDueDate(i) /\ queue_state.jobs[i].due_date.at > now.at

Overdue(i) == HasDueDate(i) /\ queue_state.jobs[i].due_date.at < now.at

\* C30 as stated: under EDD and LSN a job with a missing or unparseable due
\* date scores exactly 0; every job whose due date is still in the future
\* scores below it and is not selected while it is queued, every job that
\* is already overdue scores above it and it is not selected while such a
\* job is queued.
C30_MissingDueDateBetween ==
    (dpc = "done" /\ Upper(rule) \in {"EDD", "LSN"}) =>
        \A m \in 1..Len(queue_state.jobs) :
            MissingDueDate(m) =>
                /\ PrioAt(m) = Rat(0, 1)
                /\ \A j \in 1..Len(queue_state.jobs) :
                      /\ DueInFuture(j) =>
                            /\ GT(PrioAt(m), PrioAt(j))
                            /\ dret # queue_state.jobs[j].job_id
                      /\ Overdue(j) =>
                            /\ GT(PrioAt(j), PrioAt(m))
                            /\ dret # queue_state.jobs[m].job_id

(***************************************************************************)
(* Claims about compute_priority (checked under SpecPriority)              *)
(***************************************************************************)
\* job i has a positive process time smaller than that of job j
PtBefore(i, j) ==
    LET pi == queue_state.jobs[i].process_time_mean
        pj == queue_state.jobs[j].process_time_mean
    IN  /\ pi.kind \in {"num", "tiny"} /\ pj.kind \in {"num", "tiny"}
        /\ \/ pi.kind = "tiny" /\ pj.kind = "num"
           \/ pi.kind = pj.kind /\ pi.v < pj.v

\* C11 as stated: for two jobs with positive mean process times p1 < p2 the
\* SPT priority of the first is strictly greater than that of the second,
\* whatever the due dates and now.
C11_SPTMonotone ==
    (dpc = "done" /\ Upper(rule) = "SPT") =>
        \A i, j \in 1..Len(queue_state.jobs) :
            PtBefore(i, j) => GT(PrioAt(i), PrioAt(j))

KnownRules == {"EDD", "SPT", "LSN"}

\* C12: compute_priority never raises: with an unknown rule, a missing or
\* unparseable due date, a non-numeric process time or a failing date
\* subtraction it returns a value, and for an unknown rule that value is 0
\* for every job, so select_next_job returns the first job of the queue.
C12_NeverRaises ==
    dpc = "done" =>
        /\ \A i \in 1..Len(queue_state.jobs) : ~IsRaised(PrioAt(i))
        /\ dret # Propagated
        /\ Upper(rule) \notin KnownRules =>
              /\ \A i \in 1..Len(queue_state.jobs) : PrioAt(i) = Rat(0, 1)
              /\ dret = queue_state.jobs[1].job_id

\* under LSN the first job's date subtraction fails and its process time is
\* not a number, the second job's due date does not parse: both score 0
C12_Witness ==
    /\ dpc = "done" /\ rule = "LSN"
    /\ IsRaised(PriorityBody(rule, queue_state.jobs[1], queue_state, now))
    /\ queue_state.jobs[1].process_time_mean.kind = "text"
    /\ queue_state.jobs[2].due_date.kind = "text"
    /\ PrioAt(1) = Rat(0, 1) /\ PrioAt(2) = Rat(0, 1)
    /\ dret = "job-1"

(***************************************************************************)
(* engine/rework.py: apply_rework_if_needed                                *)
(* A step is a dict (with or without the `_rework_attempts` entry, whose   *)
(* value is an int or something int() rejects) or an opaque object.        *)
(***************************************************************************)
MaxReworkAttempts == 2
MaxReworkCalls == 3

\* values of step['_rework_attempts']: an int, or a value int() raises on
CounterValues ==
    {[kind |-> "int", v |-> n] : n \in 0..MaxReworkAttempts} \cup {[kind |-> "text", v |-> 0]}

DictSteps ==
    {[kind |-> "dict", has_counter |-> FALSE, counter |-> [kind |-> "int", v |-> 0]]}
        \cup {[kind |-> "dict", has_counter |-> TRUE, counter |-> c] : c \in CounterValues}

Steps == DictSteps \cup {OpaqueStep}

Outcomes == [inspection_failed : BOOLEAN, rework_allowed : BOOLEAN]

\* int(step.get("_rework_attempts", 0)), 0 when int() raises
Attempts(st) ==
    IF st.has_counter /\ st.counter.kind = "int" THEN st.counter.v ELSE 0

\* mutant: one more pass than allowed
AttemptsExhausted_OffByOne(attempts, m) == attempts > m

\* attempts >= int(max_rework_attempts)
AttemptsExhausted(attempts, m) == attempts >= m

\* new_step = dict(step); new_step["_rework_attempts"] = attempts + 1
CopyWithAttempts(st, attempts) ==
    [st EXCEPT !.has_counter = TRUE, !.counter = [kind |-> "int", v |-> attempts]]

\* mutant: the counter is written into the caller's dict, not into a copy
StepAfterCopyWrite_InPlace(st, attempts) == CopyWithAttempts(st, attempts)

\* the caller's step after the write of attempts to the copy
StepAfterCopyWrite(st, attempts) == st

apply_rework_if_needed(job_id, st, o, m) ==
    IF ~(o.inspection_failed /\ o.rework_allowed) THEN None
    ELSE IF st.kind = "dict"
         THEN IF AttemptsExhausted(Attempts(st), m) THEN None
              ELSE CopyWithAttempts(st, Attempts(st) + 1)
    ELSE IF m >= 1 THEN st
    ELSE None

\* the caller's step after the call
StepAfterCall(st, o, m) ==
    IF o.inspection_failed /\ o.rework_allowed /\ st.kind = "dict"
       /\ ~AttemptsExhausted(Attempts(st), m)
    THEN StepAfterCopyWrite(st, Attempts(st) + 1)
    ELSE st

InitRework ==
    /\ step \in Steps
    /\ max_rework_attempts \in 0..MaxReworkAttempts
    /\ ReworkIdle
    /\ RelFrozen
    /\ DispFrozen
    /\ RunFrozen
    /\ DownFrozen
    /\ ValFrozen
    /\ ArtFrozen

\* one call apply_rework_if_needed(job_id, step, o, max_rework_attempts)
ApplyRework ==
    /\ Len(rework_trace) < MaxReworkCalls
    /\ \E o \in Outcomes :
        /\ outcome' = o
        /\ rework_ret' = apply_rework_if_needed("J1", step, o, max_rework_attempts)
        /\ step' = StepAfterCall(step, o, max_rework_attempts)
        /\ all_failed' = (all_failed /\ o.inspection_failed /\ o.rework_allowed)
    /\ rework_trace' = Append(rework_trace, rework_ret')
    /\ to_reexecute' = (rework_ret' # None)
    /\ all_fed_back' = (all_fed_back /\ ~to_reexecute)
    /\ UNCHANGED <<vars_notrework, max_rework_attempts, first_step>>

\* the caller executes the returned step again; it is the step of the next inspection
Reexecute ==
    /\ to_reexecute
    /\ step' = rework_ret
    /\ to_reexecute' = FALSE
    /\ UNCHANGED <<vars_notrework, outcome, max_rework_attempts, rework_ret, rework_trace,
                   first_step, all_failed, all_fed_back>>

NextRework ==
    \/ ApplyRework
    \/ Reexecute

SpecRework == InitRework /\ [][NextRework]_vars

(***************************************************************************)
(* Claims about apply_rework_if_needed (checked under SpecRework)          *)
(***************************************************************************)
\* C13: from a step whose _rework_attempts is 0, feeding each returned step
\* back with a failed+allowed outcome and the same max_rework_attempts = m,
\* exactly the first m calls return a step, with counters 1..m, and the
\* (m+1)-th call returns none.
C13_ReworkBounded ==
    (/\ first_step.kind = "dict" /\ first_step.has_counter
     /\ first_step.counter = [kind |-> "int", v |-> 0]
     /\ all_failed /\ all_fed_back)
    => \A i \in 1..Len(rework_trace) :
          IF i <= max_rework_attempts
          THEN /\ rework_trace[i] # None
               /\ rework_trace[i].has_counter
               /\ rework_trace[i].counter = [kind |-> "int", v |-> i]
          ELSE rework_trace[i] = None

\* with m = 2 the third call returned none after two passes
C13_Witness ==
    /\ first_step.kind = "dict" /\ first_step.has_counter
    /\ first_step.counter = [kind |-> "int", v |-> 0]
    /\ all_failed /\ all_fed_back
    /\ max_rework_attempts = 2
    /\ Len(rework_trace) = 3
    /\ rework_trace[2] # None /\ rework_trace[2].counter.v = 2
    /\ rework_trace[3] = None

\* C14 as stated: an opaque step gets exactly one rework pass when
\* max_rework_attempts >= 1: over a sequence of failed+allowed inspections
\* of the step the first call returns it and every later call returns none.
C14_OpaqueExactlyOnce ==
    (first_step.kind = "opaque" /\ max_rework_attempts >= 1 /\ all_failed)
    => \A i \in 1..Len(rework_trace) :
          IF i = 1 THEN rework_trace[i] = first_step ELSE rework_trace[i] = None

\* C15: a call leaves the caller's step as it was, whatever it returns, and
\* returns none when the outcome is not both inspection_failed and
\* rework_allowed.
C15_Pure ==
    [][Len(rework_trace') = Len(rework_trace) + 1 =>
          /\ step' = step
          /\ ~(outcome'.inspection_failed /\ outcome'.rework_allowed)
                => rework_ret' = None]_vars

\* a call returned a copy with counter 1 while the caller's step still reads 0
C15_Witness ==
    /\ to_reexecute
    /\ step.kind = "dict" /\ step.has_counter /\ step.counter = [kind |-> "int", v |-> 0]
    /\ rework_ret # None /\ rework_ret.counter = [kind |-> "int", v |-> 1]

(***************************************************************************)
(* engine/failures.py: next_downtime                                       *)
(* Times are whole hours since an epoch, durations whole hours.            *)
(***************************************************************************)
MaxDownCalls == 2

MtbfHours == {0, 12, 24}
MttrHours == {0, 4}

\* rng: None, a random.Random, or an object whose random() raises
RngKinds == {"None", "Random", "broken"}

\* sample values of -ln(u) for the draws u = rng.random()
NegLogDraws == {1, 2}

DownArgs ==
    [machine_id : {"M1"}, now : 0..MaxTime, mtbf_hours : MtbfHours,
     mttr_hours : MttrHours, rng : RngKinds]

DowntimeWindow(mid, s, en, r) ==
    [machine_id |-> mid, start |-> s, end |-> en, reason |-> r]

\* mutant: the fixed 24 h of the placeholder instead of the argument
DeterministicStart_Fixed(nw, mtbf) == nw + 24

\* now + timedelta(hours=float(mtbf_hours))
DeterministicStart(nw, mtbf) == nw + mtbf

\* next_downtime(**a), neglog being -ln(u) of the draw it makes
next_downtime(a, neglog) ==
    IF a.rng = "None"
    THEN LET start == DeterministicStart(a.now, a.mtbf_hours)
         IN  DowntimeWindow(a.machine_id, start, start + a.mttr_hours,
                            "scheduled-placeholder")
    ELSE LET ttf_hours == IF a.rng = "broken" THEN a.mtbf_hours
                          ELSE a.mtbf_hours * neglog
             start == a.now + ttf_hours
         IN  DowntimeWindow(a.machine_id, start, start + a.mttr_hours,
                            "predicted-failure")

InitDown ==
    /\ down_args \in DownArgs
    /\ down_ret = None
    /\ down_prev = None
    /\ down_calls = 0
    /\ RelFrozen
    /\ DispFrozen
    /\ RunFrozen
    /\ ReworkFrozen
    /\ ValFrozen
    /\ ArtFrozen

\* one call next_downtime(**down_args)
NextDowntime ==
    /\ down_calls < MaxDownCalls
    /\ \E neglog \in NegLogDraws : down_ret' = next_downtime(down_args, neglog)
    /\ down_prev' = down_ret
    /\ down_calls' = down_calls + 1
    /\ UNCHANGED <<vars_notdown, down_args>>

NextDown == NextDowntime

SpecFailures == InitDown /\ [][NextDown]_vars

(***************************************************************************)
(* Claims about next_downtime (checked under SpecFailures)                 *)
(***************************************************************************)
\* C16: without a random source next_downtime returns the window that
\* starts mtbf hours after now and ends mttr hours later, with the reason
\* "scheduled-placeholder" (for mtbf = 24 and mttr = 4: now + 24 h to
\* now + 28 h), and a second call with the same arguments returns the same.
C16_DeterministicWindow ==
    (down_calls >= 1 /\ down_args.rng = "None") =>
        /\ down_ret.machine_id = down_args.machine_id
        /\ down_ret.start = down_args.now + down_args.mtbf_hours
        /\ down_ret.end = down_args.now + down_args.mtbf_hours + down_args.mttr_hours
        /\ down_ret.reason = "scheduled-placeholder"
        /\ (down_args.mtbf_hours = 24 /\ down_args.mttr_hours = 4) =>
              (down_ret.start = down_args.now + 24 /\ down_ret.end = down_args.now + 28)
        /\ down_calls >= 2 => down_ret = down_prev

\* two calls with mtbf = 12, mttr = 4 and no random source
C16_Witness ==
    /\ down_calls = 2 /\ down_args.rng = "None"
    /\ down_args.mtbf_hours = 12 /\ down_args.mttr_hours = 4
    /\ down_ret.start = down_args.now + 12 /\ down_ret.end = down_args.now + 16
    /\ down_prev = down_ret

(***************************************************************************)
(* manufacturing_module.py: create_run_manifest and run_simulation         *)
(* A datetime is a whole number of units of 1/40 hour (1.0 h = 40): the   *)
(* unit stands for the resolution of datetime (a microsecond in Python),   *)
(* to which timedelta(hours=x) rounds x. A float duration (duration_hours, *)
(* the busy seconds) is exact, in hundredths of a unit.                    *)
(***************************************************************************)
MaxJobs == 2
MaxClock == 1
\* round(otd_pct, 4): percentages are whole multiples of 0.0001
PctScale == 1000000
\* round(v, 4): utilizations are whole multiples of 0.0001
UtilScale == 10000
\* 3600.0 seconds per hour, 90 per unit of time
SecondsPerUnit == 90

\* values uuid4() may return
RunIds == {"uuid-a", "uuid-b"}
Seeds == 0..8
RunJobIds == <<"job-1", "job-2", "job-3", "job-4">>

JobProfiles ==
    { [product_id |-> "P1", process_time_mean |-> 40,
       due_offset_hours |-> 80, release_offset_hours |-> 0],
      [product_id |-> "P2", process_time_mean |-> 20,
       due_offset_hours |-> 120, release_offset_hours |-> 0],
      [product_id |-> "P1", process_time_mean |-> 41,
       due_offset_hours |-> 40, release_offset_hours |-> 2],
      [product_id |-> "P2", process_time_mean |-> 0,
       due_offset_hours |-> 40, release_offset_hours |-> 0] }

RunJobsAt(i) ==
    {[job_id |-> RunJobIds[i], product_id |-> f.product_id,
      process_time_mean |-> f.process_time_mean,
      due_offset_hours |-> f.due_offset_hours,
      release_offset_hours |-> f.release_offset_hours] : f \in JobProfiles}

RunJobLists ==
    UNION { {q \in [1..n -> UNION {RunJobsAt(i) : i \in 1..n}] :
                \A i \in 1..n : q[i] \in RunJobsAt(i)} : n \in 0..MaxJobs }

SetupMatrices ==
    { <<>>,
      <<[from_family_id |-> "P1", to_family_id |-> "P2", setup_time |-> 10]>>,
      <<[from_family_id |-> "P1", to_family_id |-> "P2", setup_time |-> 10],
        [from_family_id |-> "P2", to_family_id |-> "P1", setup_time |-> 0]>> }

\* the dispatch rule the scenario names
ScenarioRules == {"EDD"}

Scenarios ==
    {[jobs |-> j, setup_matrix |-> m, dispatch_rule |-> r] :
        j \in RunJobLists, m \in SetupMatrices, r \in ScenarioRules}

\* mutant: the release time is not waited for
Max2_First(a, b) == a

Max2(a, b) == IF a >= b THEN a ELSE b

\* f"job-{idx}" and f"prod-{idx}" for the 0-based idx of enumerate
DefaultJobIds == <<"job-0", "job-1", "job-2", "job-3">>
DefaultProducts == <<"prod-0", "prod-1", "prod-2", "prod-3">>

\* str(job.get("job_id", f"job-{idx}")) for the job at position i
JobIdOf(job, i) == Get(job, "job_id", DefaultJobIds[i])

\* a job whose due_offset_hours is a string that float() rejects carries it
\* under due_offset_text
DueOffsetUnparseable(job) == "due_offset_text" \in DOMAIN job

\* float(job.get("due_offset_hours", 24.0)), in units
DueOffsetOf(job) == Get(job, "due_offset_hours", 24 * 40)

\* float(job.get("release_offset_hours", 0.0)), in units
ReleaseOffsetOf(job) == Get(job, "release_offset_hours", 0)

\* mutant: no cap
Min2_Uncapped(a, b) == b

Min2(a, b) == IF a <= b THEN a ELSE b

RECURSIVE Pow3(_)
Pow3(k) == IF k = 0 THEN 1 ELSE 3 * Pow3(k - 1)

\* the k-th rng.uniform(-0.05, 0.05) of random.Random(sd), in percent: a
\* function of the seed and the number of the draw alone
UniformPct(sd, k) == (((sd \div Pow3(k - 1)) % 3) - 1) * 5

\* mutant: a pair without a row gets a setup time
SetupLookup_DefaultNonZero(matrix, ff, tf) ==
    LET hits == {i \in 1..Len(matrix) :
                    matrix[i].from_family_id = ff /\ matrix[i].to_family_id = tf}
    IN  IF hits = {} THEN 10
        ELSE matrix[CHOOSE i \in hits : \A j \in hits : j <= i].setup_time

\* setup_lookup.get((ff, tf), 0.0); a later row of the matrix replaces an earlier one
SetupLookup(matrix, ff, tf) ==
    LET hits == {i \in 1..Len(matrix) :
                    matrix[i].from_family_id = ff /\ matrix[i].to_family_id = tf}
    IN  IF hits = {} THEN 0
        ELSE matrix[CHOOSE i \in hits : \A j \in hits : j <= i].setup_time

\* hundredths of a unit per unit
Hundred == 100

\* timedelta(hours=x) for x of d hundredths: the nearest whole number of
\* units, the even one of two equally near
RoundHalfEven(d) ==
    LET q == d \div Hundred
        r == d % Hundred
    IN  IF 2 * r < Hundred THEN q
        ELSE IF 2 * r > Hundred THEN q + 1
        ELSE IF q % 2 = 0 THEN q ELSE q + 1

\* the setup row of the timeline
SetupRow(rid, jid, from, to, start, hours) ==
    [run_id |-> rid, job_id |-> jid, machine_id |-> "M1", event |-> "setup",
     start |-> start, end |-> start + RoundHalfEven(hours), duration_hours |-> hours,
     product_family |-> "", product_family_from |-> from, product_family_to |-> to]

\* the process row of the timeline
ProcessRow(rid, jid, family, start, hours) ==
    [run_id |-> rid, job_id |-> jid, machine_id |-> "M1", event |-> "process",
     start |-> start, end |-> start + RoundHalfEven(hours), duration_hours |-> hours,
     product_family |-> family, product_family_from |-> "", product_family_to |-> ""]

\* a / b rounded to the nearest whole number
RoundDiv(a, b) == (2 * a + b) \div (2 * b)

\* mutant: the jobs completed after their due date are counted
OtdCount_Late(jobs, completions, base) ==
    Cardinality({i \in 1..Len(jobs) :
        Get(completions, JobIdOf(jobs[i], i), base) > base + DueOffsetOf(jobs[i])})

\* the jobs completed no later than their due date
OtdCount(jobs, completions, base) ==
    Cardinality({i \in 1..Len(jobs) :
        Get(completions, JobIdOf(jobs[i], i), base) <= base + DueOffsetOf(jobs[i])})

\* lead_times_hours, in units: max(0.0, completion - release) for every job
\* of jobs_input
LeadTimes(jobs, completions, base) ==
    [i \in 1..Len(jobs) |->
        Max2(0, Get(completions, JobIdOf(jobs[i], i), base)
                    - (base + ReleaseOffsetOf(jobs[i])))]

RECURSIVE SumSeq(_)
SumSeq(s) == IF s = <<>> THEN 0 ELSE Head(s) + SumSeq(Tail(s))

\* 1.0 hour is 10000 units of 0.0001 hour and 40 units of time
TenThousandthsPerUnit == 250

\* round(statistics.mean(lead_times_hours), 4), in units of 0.0001 hour
LeadTimeAvg(leads) ==
    IF leads = <<>> THEN 0
    ELSE RoundDiv(SumSeq(leads) * TenThousandthsPerUnit, Len(leads))

\* sorted(data)
RECURSIVE SortedSeq(_)
SortedSeq(s) ==
    IF s = <<>> THEN <<>>
    ELSE LET i == CHOOSE k \in 1..Len(s) : \A j \in 1..Len(s) : s[k] <= s[j]
         IN  <<s[i]>> \o SortedSeq(SubSeq(s, 1, i - 1) \o SubSeq(s, i + 1, Len(s)))

\* round(statistics.quantiles(lead_times_hours, n=10)[-1], 4), in units of
\* 0.0001 hour: the last cut point of the 'exclusive' method; for a single
\* lead time the value itself (Python from 3.13 on)
LeadTimeP90(leads) ==
    IF leads = <<>> THEN 0
    ELSE IF Len(leads) = 1 THEN leads[1] * TenThousandthsPerUnit
    ELSE LET data == SortedSeq(leads)
             ld == Len(data)
             m == ld + 1
             j == Min2(Max2((9 * m) \div 10, 1), ld - 1)
             delta == 9 * m - j * 10
         IN  RoundDiv((data[j] * (10 - delta) + data[j + 1] * delta) * TenThousandthsPerUnit,
                      10)

\* min(1.0, busy_secs / horizon_secs) rounded to 4 places, in units of
\* 0.0001; the horizon is 1.0 second when the machine was never busy past
\* base_time
Utilization(busy, available_at, base) ==
    IF available_at > base
    THEN Min2(UtilScale, RoundDiv(busy * UtilScale, (available_at - base) * Hundred))
    ELSE Min2(UtilScale, RoundDiv(busy * SecondsPerUnit * UtilScale, Hundred))

InitRun ==
    /\ scenario \in Scenarios
    /\ seed \in Seeds
    /\ clock = 0
    /\ run_no = 1
    /\ RunIdle
    /\ prev_timeline = <<>>
    /\ prev_kpi = None
    /\ RelFrozen
    /\ DispFrozen
    /\ ReworkFrozen
    /\ DownFrozen
    /\ ValFrozen
    /\ ArtFrozen

\* create_run_manifest: a fresh uuid4 and created_at = utcnow()
CreateRunManifest ==
    /\ spc = "new"
    /\ \E rid \in RunIds, t \in clock..MaxClock :
        /\ manifest' = [run_id |-> rid, project_id |-> "proj", scenario |-> scenario,
                        seed |-> seed, created_at |-> t]
        /\ clock' = t
    /\ spc' = "manifest"
    /\ UNCHANGED <<vars_notrun, scenario, seed, run_no, base_time, jidx, last_family,
                   machine_available_at, timeline_rows, machine_work_seconds,
                   job_completion_times, kpi_report, handle, prev_timeline, prev_kpi>>

\* run_simulation, lines 99-125: the handle, the empty state, base_time = utcnow()
StartRun ==
    /\ spc = "manifest"
    /\ \E started \in clock..MaxClock :
        \E t \in started..MaxClock :
            /\ handle' = [run_id |-> manifest.run_id, status |-> "running",
                          started_at |-> started, finished_at |-> None]
            /\ base_time' = t
            /\ machine_available_at' = t
            /\ clock' = t
    /\ last_family' = NoFamily
    /\ timeline_rows' = <<>>
    /\ machine_work_seconds' = EmptyMap
    /\ job_completion_times' = EmptyMap
    /\ jidx' = 1
    /\ spc' = "loop"
    /\ UNCHANGED <<vars_notrun, scenario, seed, run_no, manifest, kpi_report,
                   prev_timeline, prev_kpi>>

\* run_simulation, lines 127-176: one pass of the loop over jobs_input
JobStep ==
    /\ spc = "loop" /\ jidx <= Len(manifest.scenario.jobs)
    /\ ~DueOffsetUnparseable(manifest.scenario.jobs[jidx])
    /\ LET job == manifest.scenario.jobs[jidx]
           jid == JobIdOf(job, jidx)
           product == Get(job, "product_id", DefaultProducts[jidx])
           process_time_hours == Get(job, "process_time_mean", 40)
           release_time == base_time + ReleaseOffsetOf(job)
           setup_hours == IF last_family # NoFamily
                          THEN SetupLookup(manifest.scenario.setup_matrix, last_family, product)
                          ELSE 0
           \* floats, in hundredths of a unit
           jitter == UniformPct(manifest.seed, jidx) * process_time_hours
           effective_process == Max2(0, process_time_hours * Hundred + jitter)
           start_time == Max2(machine_available_at, release_time)
           proc_start == IF setup_hours > 0
                         THEN start_time + RoundHalfEven(setup_hours * Hundred)
                         ELSE start_time
           proc_end == proc_start + RoundHalfEven(effective_process)
           busy == Get(machine_work_seconds, "M1", 0)
                     + (IF setup_hours > 0 THEN setup_hours * Hundred ELSE 0)
                     + effective_process
       IN  /\ timeline_rows' =
                (IF setup_hours > 0
                 THEN Append(timeline_rows,
                        SetupRow(manifest.run_id, jid, last_family, product, start_time,
                                 setup_hours * Hundred))
                 ELSE timeline_rows)
                \o <<ProcessRow(manifest.run_id, jid, product, proc_start, effective_process)>>
           /\ machine_available_at' = proc_end
           /\ machine_work_seconds' = Put(machine_work_seconds, "M1", busy)
           /\ job_completion_times' = Put(job_completion_times, jid, proc_end)
           /\ last_family' = product
    /\ jidx' = jidx + 1
    /\ UNCHANGED <<vars_notrun, scenario, seed, clock, run_no, spc, manifest, base_time,
                   kpi_report, handle, prev_timeline, prev_kpi>>

\* run_simulation, lines 178-249: the KPI report and the completed handle
FinishRun ==
    /\ spc = "loop" /\ jidx > Len(manifest.scenario.jobs)
    /\ LET jobs == manifest.scenario.jobs
           total_jobs == Len(jobs)
           otd_count == OtdCount(jobs, job_completion_times, base_time)
           otd_pct == IF total_jobs > 0 THEN RoundDiv(otd_count * PctScale, total_jobs) ELSE 0
           lead_times_hours == LeadTimes(jobs, job_completion_times, base_time)
           util == [mid \in DOMAIN machine_work_seconds |->
                        Utilization(machine_work_seconds[mid], machine_available_at, base_time)]
       IN  \E generated \in clock..MaxClock :
             \E finished \in generated..MaxClock :
                /\ kpi_report' = [run_id |-> manifest.run_id, project_id |-> manifest.project_id,
                                  seed |-> manifest.seed, total_jobs |-> total_jobs,
                                  otd_pct |-> otd_pct,
                                  lead_time_avg_hours |-> LeadTimeAvg(lead_times_hours),
                                  lead_time_p90_hours |-> LeadTimeP90(lead_times_hours),
                                  machine_utilization |-> util,
                                  generated_at |-> generated]
                /\ handle' = [handle EXCEPT !.status = "completed", !.finished_at = finished]
                /\ clock' = finished
    /\ spc' = "completed"
    /\ UNCHANGED <<vars_notrun, scenario, seed, run_no, manifest, base_time, jidx,
                   last_family, machine_available_at, timeline_rows, machine_work_seconds,
                   job_completion_times, prev_timeline, prev_kpi>>

\* run_simulation, line 196: with a single job statistics.quantiles raises
\* StatisticsError ('must have at least two data points') on a Python before
\* 3.13, and returns the single lead time from 3.13 on (FinishRun); when it
\* raises there is no KPI report, no artifact, and the handle is never returned
QuantilesRaises ==
    /\ spc = "loop" /\ jidx > Len(manifest.scenario.jobs)
    /\ Len(manifest.scenario.jobs) = 1
    /\ spc' = "raised"
    /\ UNCHANGED <<vars_notrun, scenario, seed, clock, run_no, manifest, base_time, jidx,
                   last_family, machine_available_at, timeline_rows, machine_work_seconds,
                   job_completion_times, kpi_report, handle, prev_timeline, prev_kpi>>

\* run_simulation, line 131: float() raises ValueError on a due_offset_hours
\* that is not a number; the events of the jobs before are lost with the
\* local timeline, and the handle is never returned
DueOffsetRaises ==
    /\ spc = "loop" /\ jidx <= Len(manifest.scenario.jobs)
    /\ DueOffsetUnparseable(manifest.scenario.jobs[jidx])
    /\ spc' = "raised"
    /\ UNCHANGED <<vars_notrun, scenario, seed, clock, run_no, manifest, base_time, jidx,
                   last_family, machine_available_at, timeline_rows, machine_work_seconds,
                   job_completion_times, kpi_report, handle, prev_timeline, prev_kpi>>

\* the caller keeps the outputs of the first run and runs (scenario, seed) again
RunAgain ==
    /\ spc = "completed" /\ run_no = 1
    /\ prev_timeline' = timeline_rows
    /\ prev_kpi' = kpi_report
    /\ run_no' = 2
    /\ spc' = "new"
    /\ manifest' = None
    /\ base_time' = 0
    /\ jidx' = 0
    /\ last_family' = NoFamily
    /\ machine_available_at' = 0
    /\ timeline_rows' = <<>>
    /\ machine_work_seconds' = EmptyMap
    /\ job_completion_times' = EmptyMap
    /\ kpi_report' = None
    /\ handle' = None
    /\ UNCHANGED <<vars_notrun, scenario, seed, clock>>

NextRun ==
    \/ CreateRunManifest
    \/ StartRun
    \/ JobStep
    \/ FinishRun
    \/ QuantilesRaises
    \/ RunAgain

SpecRun == InitRun /\ [][NextRun]_vars

\* scenarios with data gaps: a job without job_id, without due_offset_hours,
\* with a due_offset_hours that is not a number, or with a mean process
\* time of 0
GapProfiles ==
    { [job_id |-> "A", product_id |-> "P1", process_time_mean |-> 40,
       due_offset_hours |-> 30, release_offset_hours |-> 0],
      [job_id |-> "A", product_id |-> "P1", process_time_mean |-> 40,
       release_offset_hours |-> 0],
      [job_id |-> "A", product_id |-> "P1", process_time_mean |-> 40,
       due_offset_text |-> "n/a", release_offset_hours |-> 0],
      [product_id |-> "P1", process_time_mean |-> 40,
       due_offset_hours |-> 80, release_offset_hours |-> 0],
      [job_id |-> "A", product_id |-> "P1", process_time_mean |-> 0,
       due_offset_hours |-> 80, release_offset_hours |-> 0] }

\* profile f at position i of the jobs list
GapJob(f, i) ==
    IF "job_id" \in DOMAIN f THEN [f EXCEPT !.job_id = RunJobIds[i]] ELSE f

RECURSIVE GapJobsOfLen(_)
GapJobsOfLen(n) ==
    IF n = 0 THEN {<<>>}
    ELSE {Append(q, GapJob(f, n)) : q \in GapJobsOfLen(n - 1), f \in GapProfiles}

GapSeeds == {0, 8}

InitRunGaps ==
    /\ scenario \in {[jobs |-> j, setup_matrix |-> <<>>, dispatch_rule |-> "EDD"] :
                        j \in UNION {GapJobsOfLen(n) : n \in 0..MaxJobs}}
    /\ seed \in GapSeeds
    /\ clock = 0
    /\ run_no = 1
    /\ RunIdle
    /\ prev_timeline = <<>>
    /\ prev_kpi = None
    /\ RelFrozen
    /\ DispFrozen
    /\ ReworkFrozen
    /\ DownFrozen
    /\ ValFrozen
    /\ ArtFrozen

NextRunGaps ==
    \/ NextRun
    \/ DueOffsetRaises

SpecRunGaps == InitRunGaps /\ [][NextRunGaps]_vars

\* run_simulation is straight-line synchronous code: a step that can be
\* taken is taken
SpecRunLive == InitRun /\ [][NextRun]_vars /\ WF_vars(NextRun)

(***************************************************************************)
(* Claims about run_simulation (checked under SpecRun)                     *)
(***************************************************************************)
\* C1 as stated: two runs of the simulation on the same scenario and seed
\* produce identical Timeline Event sequences (run id, job id, machine id,
\* kind, start, end, duration, family) and identical KPI reports.
C1_Deterministic ==
    (run_no = 2 /\ spc = "completed")
        => (timeline_rows = prev_timeline /\ kpi_report = prev_kpi)

\* the process events of the timeline, in order
ProcessRows == SelectSeq(timeline_rows, LAMBDA r : r.event = "process")

\* positions of the setup events of job jid in the timeline
SetupRowsFor(jid) ==
    {i \in 1..Len(timeline_rows) :
        timeline_rows[i].event = "setup" /\ timeline_rows[i].job_id = jid}

\* when the machine is free for its k-th process event
FreeAt(k) == IF k = 1 THEN base_time ELSE ProcessRows[k - 1].end

\* the setup matrix has a row for the pair
HasRow(matrix, ff, tf) ==
    \E r \in 1..Len(matrix) :
        matrix[r].from_family_id = ff /\ matrix[r].to_family_id = tf

\* C17: for the first job and for every family pair without a row in the
\* setup matrix the setup time is 0: the run completes, the job has no
\* setup event and is processed as soon as the machine is free and the job
\* released; every setup event is for a pair configured with a time > 0.
C17_SetupDefaultZero ==
    spc \in {"completed", "raised"} =>
        LET jobs == manifest.scenario.jobs
            matrix == manifest.scenario.setup_matrix
        IN  \A k \in 1..Len(jobs) :
              LET jid == jobs[k].job_id
                  released == base_time + jobs[k].release_offset_hours
              IN  /\ (k = 1 \/ ~HasRow(matrix, jobs[k - 1].product_id, jobs[k].product_id))
                       => /\ SetupRowsFor(jid) = {}
                          /\ ProcessRows[k].job_id = jid
                          /\ ProcessRows[k].start =
                                (IF FreeAt(k) >= released THEN FreeAt(k) ELSE released)
                  /\ \A i \in SetupRowsFor(jid) :
                        /\ k > 1
                        /\ timeline_rows[i].duration_hours > 0
                        /\ \E r \in 1..Len(matrix) :
                              /\ matrix[r].from_family_id = jobs[k - 1].product_id
                              /\ matrix[r].to_family_id = jobs[k].product_id
                              /\ matrix[r].setup_time * 100 = timeline_rows[i].duration_hours

\* a run with a setup matrix completed with a change from P2 to P1, which
\* has no row, and without any setup event
C17_Witness ==
    /\ spc = "completed"
    /\ Len(manifest.scenario.jobs) = 2
    /\ Len(manifest.scenario.setup_matrix) = 1
    /\ manifest.scenario.jobs[1].product_id = "P2"
    /\ manifest.scenario.jobs[2].product_id = "P1"
    /\ Len(timeline_rows) = 2

\* a job of the scenario as the Dispatch Evaluator sees it in the queue
AsQueuedJob(job) ==
    [job_id |-> job.job_id,
     due_date |-> [kind |-> "naive", at |-> base_time + job.due_offset_hours],
     process_time_mean |-> [kind |-> "num", v |-> job.process_time_mean]]

\* the jobs queued when the machine is free for its k-th process event:
\* released by then and not processed before
QueuedAt(k) ==
    LET waiting == SelectSeq(manifest.scenario.jobs,
                     LAMBDA j : /\ base_time + j.release_offset_hours <= FreeAt(k)
                                /\ \A i \in 1..(k - 1) : ProcessRows[i].job_id # j.job_id)
    IN  [i \in 1..Len(waiting) |-> AsQueuedJob(waiting[i])]

\* C18 as stated: whenever the machine becomes free, the job that gets the
\* next process event is the one the dispatch rule selects among the jobs
\* queued at that time, whatever their position in the input list.
C18_DispatchDecidesOrder ==
    spc = "completed" =>
        \A k \in 1..Len(ProcessRows) :
            QueuedAt(k) # <<>> =>
                ProcessRows[k].job_id =
                    select_next_job([jobs |-> QueuedAt(k)], manifest.scenario.dispatch_rule,
                                    [kind |-> "naive", at |-> FreeAt(k)])

\* jobs [job-1: mean 1.0 h, due +2 h; job-2: mean 0.5 h, due +3 h], EDD, no setup matrix
C19_Scenario ==
    /\ manifest # None
    /\ manifest.scenario.dispatch_rule = "EDD"
    /\ manifest.scenario.setup_matrix = <<>>
    /\ Len(manifest.scenario.jobs) = 2
    /\ manifest.scenario.jobs[1].process_time_mean = 40
    /\ manifest.scenario.jobs[1].due_offset_hours = 80
    /\ manifest.scenario.jobs[1].release_offset_hours = 0
    /\ manifest.scenario.jobs[2].process_time_mean = 20
    /\ manifest.scenario.jobs[2].due_offset_hours = 120
    /\ manifest.scenario.jobs[2].release_offset_hours = 0

\* C19: in that scenario job-1's process event precedes job-2's, both jobs
\* complete no later than their due dates for every jitter within 5% of
\* the mean process time, and the reported OTD% is 100.0.
C19_ScenarioOnTime ==
    (C19_Scenario /\ spc = "completed") =>
        /\ Len(timeline_rows) = 2
        /\ timeline_rows[1].job_id = "job-1" /\ timeline_rows[1].event = "process"
        /\ timeline_rows[2].job_id = "job-2" /\ timeline_rows[2].event = "process"
        /\ timeline_rows[1].end <= timeline_rows[2].start
        /\ timeline_rows[1].end <= base_time + 80
        /\ timeline_rows[2].end <= base_time + 120
        /\ kpi_report.otd_pct = 100 * 10000

\* the scenario completed with both process times 5% over their mean
C19_Witness ==
    /\ C19_Scenario /\ spc = "completed"
    /\ timeline_rows[1].duration_hours = 4200
    /\ timeline_rows[2].duration_hours = 2100
    /\ kpi_report.otd_pct = 100 * 10000

\* the durations of the timeline events on machine mid, added up
RECURSIVE EventUnits(_, _)
EventUnits(rows, mid) ==
    IF rows = <<>> THEN 0
    ELSE (IF Head(rows).machine_id = mid THEN Head(rows).duration_hours ELSE 0)
            + EventUnits(Tail(rows), mid)

\* the number of timeline events on machine mid
EventCount(mid) ==
    Cardinality({i \in 1..Len(timeline_rows) : timeline_rows[i].machine_id = mid})

\* u is busy / horizon to 4 places, capped at 1.0 (u in units of 0.0001,
\* busy and horizon in hundredths of a unit)
IsCappedRatio(u, busy, horizon) ==
    /\ 0 <= u /\ u <= 10000
    /\ (horizon > 0 /\ busy >= horizon) => u = 10000
    /\ (horizon > 0 /\ busy < horizon) =>
          /\ 2 * (u * horizon - busy * 10000) <= horizon
          /\ 2 * (busy * 10000 - u * horizon) <= horizon
    /\ horizon = 0 => u = 0

JobOfRow(i) ==
    CHOOSE k \in 1..Len(manifest.scenario.jobs) :
        manifest.scenario.jobs[k].job_id = timeline_rows[i].job_id

\* C26: machine exclusivity and release respect. At every point of a run
\* the events of the timeline are in time order and do not overlap (each
\* starts no earlier than the one before it ends), a setup event is
\* followed by the process event of the same job, which starts exactly when
\* the setup ends, and no event of a job starts before the job's release time.
C26_ExclusiveAndReleased ==
    spc \in {"loop", "completed", "raised"} =>
        /\ \A i \in 1..Len(timeline_rows) :
              /\ timeline_rows[i].machine_id = "M1"
              /\ timeline_rows[i].start <= timeline_rows[i].end
              /\ i > 1 => timeline_rows[i - 1].end <= timeline_rows[i].start
              /\ timeline_rows[i].start >=
                    base_time + manifest.scenario.jobs[JobOfRow(i)].release_offset_hours
              /\ timeline_rows[i].event = "setup" =>
                    /\ i < Len(timeline_rows)
                    /\ timeline_rows[i + 1].event = "process"
                    /\ timeline_rows[i + 1].job_id = timeline_rows[i].job_id
                    /\ timeline_rows[i + 1].start = timeline_rows[i].end
        /\ Len(timeline_rows) > 0 =>
              machine_available_at = timeline_rows[Len(timeline_rows)].end

\* job-1 waited for its release with the machine free, and job-2 got a
\* setup event right after job-1's process event
C26_Witness ==
    /\ spc = "completed"
    /\ Len(timeline_rows) = 3
    /\ manifest.scenario.jobs[1].release_offset_hours > 0
    /\ timeline_rows[1].start = base_time + manifest.scenario.jobs[1].release_offset_hours
    /\ timeline_rows[2].event = "setup" /\ timeline_rows[2].job_id = "job-2"
    /\ timeline_rows[2].start = timeline_rows[1].end
    /\ timeline_rows[3].start = timeline_rows[2].end
    /\ timeline_rows[2].end > timeline_rows[2].start

\* positions of the process events of job jid in the timeline
ProcessRowsFor(jid) ==
    {i \in 1..Len(timeline_rows) :
        timeline_rows[i].event = "process" /\ timeline_rows[i].job_id = jid}

\* every job of the scenario is Completed after one pass: it has a
\* completion time, exactly one process event and at most one setup event,
\* which stands right before the process event
EveryJobCompleted ==
    \A k \in 1..Len(manifest.scenario.jobs) :
        LET jid == manifest.scenario.jobs[k].job_id
        IN  /\ jid \in DOMAIN job_completion_times
            /\ Cardinality(ProcessRowsFor(jid)) = 1
            /\ Cardinality(SetupRowsFor(jid)) <= 1
            /\ \A i \in SetupRowsFor(jid) : i + 1 \in ProcessRowsFor(jid)

\* C23 as stated (checked under SpecRunLive): every run of a scenario
\* terminates, after finitely many steps, as a completed run in which every
\* job is Completed with exactly one process event, preceded by at most one
\* setup event; no job is queued a second time (the runner grants no rework
\* pass, which is within every rework cap).
C23_EveryJobRunsToCompletion ==
    <>(spc = "completed" /\ handle.status = "completed" /\ EveryJobCompleted)

(***************************************************************************)
(* Claims about run_simulation on scenarios with data gaps (checked under  *)
(* SpecRunGaps)                                                            *)
(***************************************************************************)
\* the job has no due offset, or one that is not a number
HasDueGap(job) == "due_offset_hours" \notin DOMAIN job

\* positions of the jobs with a due offset
WithDue == {k \in 1..Len(scenario.jobs) : ~HasDueGap(scenario.jobs[k])}

\* positions of the jobs with a due offset that completed by their due date
OnTimeWithDue ==
    {k \in WithDue :
        Get(job_completion_times, JobIdOf(scenario.jobs[k], k), base_time)
            <= base_time + scenario.jobs[k].due_offset_hours}

\* the lead times of the jobs with a due offset, added up
RECURSIVE LeadSumOver(_)
LeadSumOver(K) ==
    IF K = {} THEN 0
    ELSE LET k == CHOOSE x \in K : TRUE
         IN  LeadTimes(scenario.jobs, job_completion_times, base_time)[k]
                + LeadSumOver(K \ {k})

\* C21 as stated: a scenario in which a job's due offset is missing or not
\* a number is simulated to the end: the run does not abort, every job gets
\* its process event, and the OTD percentage and the mean lead time are
\* taken over the jobs that have a due offset only.
C21_SoftGapsNeverAbort ==
    (\E k \in 1..Len(scenario.jobs) : HasDueGap(scenario.jobs[k])) =>
        /\ spc # "raised"
        /\ spc = "completed" =>
              /\ \A k \in 1..Len(scenario.jobs) :
                    \E i \in 1..Len(timeline_rows) :
                        /\ timeline_rows[i].event = "process"
                        /\ timeline_rows[i].job_id = JobIdOf(scenario.jobs[k], k)
              /\ kpi_report.otd_pct =
                    (IF WithDue = {} THEN 0
                     ELSE RoundDiv(Cardinality(OnTimeWithDue) * PctScale, Cardinality(WithDue)))
              /\ kpi_report.lead_time_avg_hours =
                    (IF WithDue = {} THEN 0
                     ELSE RoundDiv(LeadSumOver(WithDue) * TenThousandthsPerUnit,
                                   Cardinality(WithDue)))

\* a job without identifier or with a mean process time that is not positive
StructurallyInvalid ==
    \E k \in 1..Len(scenario.jobs) :
        \/ "job_id" \notin DOMAIN scenario.jobs[k]
        \/ Get(scenario.jobs[k], "process_time_mean", 40) <= 0

\* C22 as stated: a structurally invalid scenario is rejected before any
\* simulated time advances: its run produces no Timeline Event and never
\* completes; and a run that does not complete has produced no Timeline
\* Event (no partially completed run).
C22_InvalidScenarioRejected ==
    /\ StructurallyInvalid =>
          /\ timeline_rows = <<>>
          /\ machine_available_at = base_time
          /\ spc # "completed"
    /\ spc = "raised" => timeline_rows = <<>>

(***************************************************************************)
(* engine/run.py: validate_csv_documents                                   *)
(* A document is a dict with a name and rows; a row is a dict from column  *)
(* names to cells, all rows of a document having the columns of its CSV    *)
(* header (as csv.DictReader yields them). Numbers are in halves (2 = 1.0).*)
(***************************************************************************)
MaxRows == 2

\* a cell: None (a short row), the empty string, a string float() rejects,
\* the string 'nan' (float() makes it the NaN), or the text of a number
NoneCell == [kind |-> "None", v |-> 0]
TextCell == [kind |-> "text", v |-> 0]
NanCell == [kind |-> "nan", v |-> 0]

CellValues ==
    {NoneCell, [kind |-> "empty", v |-> 0], TextCell, NanCell}
        \cup {[kind |-> "num", v |-> n] : n \in {0 - 1, 0, 1, 2, 3}}

\* x < n and x <= n on floats: every comparison with the NaN is False
FloatLt(x, n) == x.kind = "num" /\ x.v < n
FloatLe(x, n) == x.kind = "num" /\ x.v <= n

DocNames == {"products", "toy_Products", "setup_matrix", "yields", "machines"}

\* name.lower()
LowerName(name) == IF name = "toy_Products" THEN "toy_products" ELSE name

\* word in name.lower()
NameHas(word, name) ==
    \/ LowerName(name) = word
    \/ (word = "products" /\ LowerName(name) = "toy_products")

\* the column that is checked in the rows of a document of that name
CheckedColumns(name) ==
    (IF NameHas("products", name) THEN {"process_time_mean"} ELSE {})
        \cup (IF NameHas("setup_matrix", name) THEN {"setup_time"} ELSE {})
        \cup (IF NameHas("yields", name) THEN {"yield_rate"} ELSE {})

\* columns a header may have besides: one without a name, one named by a
\* blank, one nobody reads
OtherColumns == {"", " ", "extra_col"}

\* the rows with the columns of `header`
RowsOver(header, checked) ==
    {r \in [header -> CellValues] :
        \A c \in header \ checked : r[c] = TextCell}

RECURSIVE RowListsOfLen(_, _, _)
RowListsOfLen(header, checked, n) ==
    IF n = 0 THEN {<<>>}
    ELSE {Append(q, r) : q \in RowListsOfLen(header, checked, n - 1),
                         r \in RowsOver(header, checked)}

\* the documents of at most m rows
Documents(m) ==
    UNION {
        UNION {
            UNION { {[name |-> nm, rows |-> rs] : rs \in RowListsOfLen(h, CheckedColumns(nm), n)}
                    : n \in 0..m }
            : h \in {c \cup o : c \in SUBSET CheckedColumns(nm), o \in SUBSET OtherColumns} }
        : nm \in DocNames }

\* documents that may come second in the list
SecondDocuments ==
    { [name |-> "products",
       rows |-> <<[c \in {"process_time_mean"} |-> [kind |-> "num", v |-> 2]]>>],
      [name |-> "machines", rows |-> <<[c \in {"", "extra_col"} |-> TextCell]>>],
      [name |-> "yields", rows |-> <<[c \in {"yield_rate"} |-> [kind |-> "num", v |-> 3]]>>] }

DocumentLists(m) ==
    {<<>>} \cup {<<d>> : d \in Documents(m)}
           \cup {<<d, d2>> : d \in Documents(m), d2 \in SecondDocuments}

\* "file:{name},row:{row},column:{column},message:{text}"
Issue(name, row_number, column, text) ==
    [file |-> name, row |-> row_number, column |-> column, message |-> text]

\* any(k == "" or k.strip() == "" for k in first_row.keys())
HasEmptyHeaderKey(first_row) == DOMAIN first_row \cap {"", " "} # {}

\* lines 437-444: the scan of the header of one document
HeaderIssues(doc) ==
    IF doc.rows # <<>> /\ HasEmptyHeaderKey(doc.rows[1])
    THEN <<Issue(doc.name, 1, "<header>", "empty or missing header column detected")>>
    ELSE <<>>

\* row.get(column)
Cell(row, column) == Get(row, column, NoneCell)

\* pt is None or pt == ""
IsMissing(cell) == cell.kind \in {"None", "empty"}

\* float(pt) <= 0.0
ProcessTimeRejected(x) == FloatLe(x, 0)

\* float(st) < 0.0
SetupTimeRejected(x) == FloatLt(x, 0)

\* not (0.0 < v <= 1.0)
YieldRejected(x) == ~(x.kind = "num" /\ 0 < x.v /\ FloatLe(x, 2))

\* the check of one column of one row: missing, invalid number, or out of range
ColumnIssues(name, row_number, row, column, rejected, text) ==
    LET cell == Cell(row, column)
    IN  IF IsMissing(cell) THEN <<Issue(name, row_number, column, "missing")>>
        ELSE IF cell.kind = "text" THEN <<Issue(name, row_number, column, "invalid number")>>
        ELSE IF rejected THEN <<Issue(name, row_number, column, text)>>
        ELSE <<>>

\* lines 450-483: the checks of the row at 0-based position idx
RowIssues(name, row, row_number) ==
    (IF NameHas("products", name)
     THEN ColumnIssues(name, row_number, row, "process_time_mean",
                       ProcessTimeRejected(Cell(row, "process_time_mean")), "must be > 0")
     ELSE <<>>)
    \o (IF NameHas("setup_matrix", name)
        THEN ColumnIssues(name, row_number, row, "setup_time",
                          SetupTimeRejected(Cell(row, "setup_time")), "must be >= 0")
        ELSE <<>>)
    \o (IF NameHas("yields", name)
        THEN ColumnIssues(name, row_number, row, "yield_rate",
                          YieldRejected(Cell(row, "yield_rate")), "must be (0,1]")
        ELSE <<>>)

\* the issues of the rows of a document from position i on; the header is
\* row 1, the data starts at row 2
RECURSIVE DocIssuesFrom(_, _)
DocIssuesFrom(doc, i) ==
    IF i > Len(doc.rows) THEN <<>>
    ELSE RowIssues(doc.name, doc.rows[i], i + 1) \o DocIssuesFrom(doc, i + 1)

DocIssues(doc) == DocIssuesFrom(doc, 1)

\* the first loop over the documents (lines 437-444)
RECURSIVE HeaderIssuesOver(_, _)
HeaderIssuesOver(docs, i) ==
    IF i > Len(docs) THEN <<>>
    ELSE HeaderIssues(docs[i]) \o HeaderIssuesOver(docs, i + 1)

\* the second loop over the documents (lines 446-483)
RECURSIVE RowIssuesOver(_, _)
RowIssuesOver(docs, i) ==
    IF i > Len(docs) THEN <<>>
    ELSE DocIssues(docs[i]) \o RowIssuesOver(docs, i + 1)

validate_csv_documents(docs) ==
    LET errors == HeaderIssuesOver(docs, 1) \o RowIssuesOver(docs, 1)
    IN  [valid |-> Len(errors) = 0, warnings |-> <<>>, errors |-> errors]

InitValidate ==
    /\ documents \in DocumentLists(MaxRows)
    /\ report = None
    /\ RelFrozen
    /\ DispFrozen
    /\ RunFrozen
    /\ ReworkFrozen
    /\ DownFrozen
    /\ ArtFrozen

\* one call validate_csv_documents(documents)
ValidateCsvDocuments ==
    /\ report = None
    /\ report' = validate_csv_documents(documents)
    /\ UNCHANGED <<vars_notval, documents>>

NextValidate == ValidateCsvDocuments

SpecValidate == InitValidate /\ [][NextValidate]_vars

(***************************************************************************)
(* Claims about validate_csv_documents (SpecValidate)                      *)
(***************************************************************************)
\* a process_time_mean that is missing, is no number, or is <= 0
BadProcessTime(cell) ==
    \/ IsMissing(cell)
    \/ cell.kind \in {"text", "nan"}
    \/ (cell.kind = "num" /\ cell.v <= 0)

SomeProductsRowIsBad ==
    \E d \in 1..Len(documents) :
        /\ NameHas("products", documents[d].name)
        /\ \E i \in 1..Len(documents[d].rows) :
               BadProcessTime(Cell(documents[d].rows[i], "process_time_mean"))

SomeHeaderHasEmptyName ==
    \E d \in 1..Len(documents) :
        /\ documents[d].rows # <<>>
        /\ "" \in DOMAIN documents[d].rows[1]

\* the documents without the column extra_col
WithoutExtra(row) == [c \in DOMAIN row \ {"extra_col"} |-> row[c]]

DocumentsWithoutExtra ==
    [d \in 1..Len(documents) |->
        [name |-> documents[d].name,
         rows |-> [i \in 1..Len(documents[d].rows) |-> WithoutExtra(documents[d].rows[i])]]]

HasExtraColumn ==
    \E d \in 1..Len(documents) :
        /\ documents[d].rows # <<>>
        /\ "extra_col" \in DOMAIN documents[d].rows[1]

\* C24: once the documents are validated, the report is not valid when a
\* row of a products document has a process_time_mean that is missing, not
\* a number or <= 0, or when a header has an empty column name; valid is
\* true exactly when no error was recorded; and an extra column produces no
\* error: the report is the one of the documents without it.
C24_ValidationReport ==
    report # None =>
        /\ SomeProductsRowIsBad => ~report.valid
        /\ SomeHeaderHasEmptyName => ~report.valid
        /\ report.valid <=> report.errors = <<>>
        /\ \A e \in 1..Len(report.errors) : report.errors[e].column # "extra_col"
        /\ report = validate_csv_documents(DocumentsWithoutExtra)

\* the parts of C24 apart from the NaN: a products row whose process time
\* is missing, a string float() rejects, or a number <= 0 is reported
C24_HoldsApartFromNan ==
    report # None =>
        /\ (\E d \in 1..Len(documents) :
               /\ NameHas("products", documents[d].name)
               /\ \E i \in 1..Len(documents[d].rows) :
                      LET cell == Cell(documents[d].rows[i], "process_time_mean")
                      IN  BadProcessTime(cell) /\ cell.kind # "nan")
              => ~report.valid
        /\ SomeHeaderHasEmptyName => ~report.valid
        /\ report.valid <=> report.errors = <<>>
        /\ \A e \in 1..Len(report.errors) : report.errors[e].column # "extra_col"
        /\ report = validate_csv_documents(DocumentsWithoutExtra)

(***************************************************************************)
(* engine/run.py: run_simulation, collect_artifacts, store_artifact,       *)
(* load_artifact                                                           *)
(* A path is the sequence of its components, an absolute one starting with *)
(* "/"; a file:// handle is the scheme followed by an absolute path. The   *)
(* bytes of a CSV file are the sequence of its lines, a line the sequence  *)
(* of its fields.                                                          *)
(***************************************************************************)
MaxStores == 3

\* the working directory of the process
Cwd == <<"/", "srv">>

\* os.path.abspath(path)
abspath(path) == IF path # <<>> /\ path[1] = "/" THEN path ELSE Cwd \o path

\* os.path.join(".artifacts", run_id)
RunDir(run_id) == <<".artifacts", run_id>>

\* the `kind` arguments, split at the path separators
Kinds == {<<"timeline.csv">>, <<"sub", "timeline.csv">>, <<"kpi.json">>, <<"sub", "">>}

\* os.path.basename(str(kind))
basename(kind) == kind[Len(kind)]

\* payloads a caller stores
Payloads == {<<>>, <<<<"other bytes">>>>}

\* random.Random(seed): the three rng.choice(["queued", "started", "finished"])
ArtSeeds == {0, 12345}

RngChoices(sd) ==
    IF sd = 0 THEN <<"started", "started", "queued">>
    ELSE <<"started", "finished", "queued">>

\* fieldnames of the DictWriter
TimelineFields == <<"timestamp", "event", "job_id", "action">>

\* f"job-{i+1}"
TimelineJobIds == <<"job-1", "job-2", "job-3">>

\* the CSV run_simulation writes: the header and three events
TimelineBytes(sd) ==
    <<TimelineFields>>
        \o [i \in 1..3 |->
              <<"created_at", RngChoices(sd)[i], TimelineJobIds[i], RngChoices(sd)[i]>>]

\* mutant: an existing file is appended to
WriteFile_Appends(fs, path, payload) ==
    [q \in DOMAIN fs \cup {abspath(path)} |->
        IF q = abspath(path)
        THEN (IF q \in DOMAIN fs THEN fs[q] ELSE <<>>) \o payload
        ELSE fs[q]]

\* open(path, "wb").write(payload): the file is created or truncated
WriteFile(fs, path, payload) ==
    [q \in DOMAIN fs \cup {abspath(path)} |->
        IF q = abspath(path) THEN payload ELSE fs[q]]

\* ArtifactHandle(handle=f"file://{os.path.abspath(path)}", url=path)
ArtifactHandleOf(path) ==
    [handle |-> <<"file://">> \o abspath(path), url |-> path]

\* the path store_artifact writes to
StorePath(run_id, kind) == RunDir(run_id) \o <<basename(kind)>>

\* the names in sorted() order
SortedNames == <<"kpi.json", "timeline.csv">>

\* os.listdir(run_dir)
ListDir(fs, dir) ==
    {nm \in {SortedNames[i] : i \in 1..Len(SortedNames)} :
        abspath(dir \o <<nm>>) \in DOMAIN fs}

\* ArtifactIndex(run_id, artifacts): sorted names with their paths
collect_artifacts(fs, run_id) ==
    LET names == SelectSeq(SortedNames, LAMBDA nm : nm \in ListDir(fs, RunDir(run_id)))
    IN  [run_id |-> run_id,
         artifacts |-> [i \in 1..Len(names) |->
                          [name |-> names[i], path |-> RunDir(run_id) \o <<names[i]>>]]]

\* handle[len("file://"):] for a file:// handle, the handle itself otherwise
PathOfHandle(h) == IF h # <<>> /\ h[1] = "file://" THEN Tail(h) ELSE h

\* the bytes read, or FileNotFoundError
load_artifact(fs, h) ==
    LET path == abspath(PathOfHandle(h))
    IN  IF path \in DOMAIN fs
        THEN [ok |-> TRUE, bytes |-> fs[path]]
        ELSE [ok |-> FALSE, bytes |-> <<>>]

\* one entry of the log of store_artifact calls
StoreCall(run_id, kind, payload, by) ==
    [run_id |-> run_id, kind |-> kind, payload |-> payload, by |-> by,
     ret |-> ArtifactHandleOf(StorePath(run_id, kind))]

InitArtifacts ==
    /\ ArtFrozen
    /\ RelFrozen
    /\ DispFrozen
    /\ RunFrozen
    /\ ReworkFrozen
    /\ DownFrozen
    /\ ValFrozen

\* run_simulation(manifest): writes timeline.csv, stores its bytes again
\* through store_artifact, returns a completed handle
EngineRunSimulation ==
    /\ Len(store_log) < MaxStores
    /\ \E run_id \in RunIds, sd \in ArtSeeds :
          LET timeline_path == RunDir(run_id) \o <<"timeline.csv">>
              written == WriteFile(files, timeline_path, TimelineBytes(sd))
              payload == written[abspath(timeline_path)]
          IN  /\ files' = WriteFile(written, StorePath(run_id, <<"timeline.csv">>), payload)
              /\ store_log' = Append(store_log,
                                     StoreCall(run_id, <<"timeline.csv">>, payload, "run_simulation"))
              /\ run_handles' = run_handles \cup {run_id}
    /\ art_result' = None
    /\ UNCHANGED vars_notart

\* store_artifact(run_id, kind, payload, media_type)
StoreArtifact ==
    /\ Len(store_log) < MaxStores
    /\ \E run_id \in RunIds, kind \in Kinds, payload \in Payloads :
          /\ basename(kind) # ""
          /\ files' = WriteFile(files, StorePath(run_id, kind), payload)
          /\ store_log' = Append(store_log, StoreCall(run_id, kind, payload, "caller"))
    /\ art_result' = None
    /\ UNCHANGED <<vars_notart, run_handles>>

\* store_artifact with a kind that ends in a separator: the path is the run
\* directory and open() raises IsADirectoryError
StoreArtifactRaises ==
    /\ Len(store_log) < MaxStores
    /\ \E run_id \in RunIds, kind \in Kinds :
          /\ basename(kind) = ""
          /\ art_result' = [op |-> "store_artifact", arg |-> StorePath(run_id, kind),
                            raised |-> "IsADirectoryError"]
    /\ UNCHANGED <<vars_notart, files, store_log, run_handles>>

\* collect_artifacts(handle) for a handle run_simulation returned
CollectArtifacts ==
    /\ \E run_id \in run_handles :
          art_result' = [op |-> "collect_artifacts", arg |-> run_id,
                         index |-> collect_artifacts(files, run_id)]
    /\ UNCHANGED <<vars_notart, files, store_log, run_handles>>

\* the handles and paths a caller holds: those store_artifact returned ...
KnownHandles ==
    UNION {{store_log[i].ret.handle, store_log[i].ret.url} : i \in 1..Len(store_log)}

\* ... and the paths of the index just collected
CollectedPaths ==
    IF art_result # None /\ art_result.op = "collect_artifacts"
    THEN {art_result.index.artifacts[i].path : i \in 1..Len(art_result.index.artifacts)}
    ELSE {}

\* load_artifact(handle)
LoadArtifact ==
    /\ \E h \in KnownHandles \cup CollectedPaths :
          art_result' = [op |-> "load_artifact", arg |-> h, data |-> load_artifact(files, h)]
    /\ UNCHANGED <<vars_notart, files, store_log, run_handles>>

NextArtifacts ==
    \/ EngineRunSimulation
    \/ StoreArtifact
    \/ StoreArtifactRaises
    \/ CollectArtifacts
    \/ LoadArtifact

SpecArtifacts == InitArtifacts /\ [][NextArtifacts]_vars

(***************************************************************************)
(* Claims about the artifact store (SpecArtifacts)                         *)
(***************************************************************************)
\* the store_artifact calls that returned h as handle or as url
StoresReturning(h) ==
    {i \in 1..Len(store_log) : h \in {store_log[i].ret.handle, store_log[i].ret.url}}

\* the last call that wrote the file store call i wrote
LastStoreTo(i) ==
    CHOOSE j \in 1..Len(store_log) :
        /\ store_log[j].ret = store_log[i].ret
        /\ \A k \in 1..Len(store_log) : store_log[k].ret = store_log[i].ret => k <= j

\* the fields found in the bytes
FieldsIn(bytes) ==
    UNION {{bytes[l][f] : f \in 1..Len(bytes[l])} : l \in 1..Len(bytes)}

Collected == art_result # None /\ art_result.op = "collect_artifacts"

Loaded == art_result # None /\ art_result.op = "load_artifact"

\* C25: the index collected for a run run_simulation returned lists
\* timeline.csv; load_artifact on a path of the index, or on the handle or
\* url store_artifact returned, gives exactly the bytes last stored there,
\* which for the bytes run_simulation stored hold the header fields
\* timestamp, event and job_id; and two stores under the same run id and
\* kind go to the same file, so that the later bytes replace the earlier.
C25_ArtifactRoundTrip ==
    /\ Collected =>
          /\ art_result.index.run_id = art_result.arg
          /\ \E a \in 1..Len(art_result.index.artifacts) :
                /\ art_result.index.artifacts[a].name = "timeline.csv"
                /\ StoresReturning(art_result.index.artifacts[a].path) # {}
    /\ Loaded =>
          /\ StoresReturning(art_result.arg) # {}
          /\ \A i \in StoresReturning(art_result.arg) :
                LET last == store_log[LastStoreTo(i)]
                IN  /\ art_result.data.ok
                    /\ art_result.data.bytes = last.payload
                    /\ last.by = "run_simulation" =>
                          {"timestamp", "event", "job_id"} \subseteq FieldsIn(art_result.data.bytes)
    /\ \A i, j \in 1..Len(store_log) :
          (store_log[i].run_id = store_log[j].run_id /\ store_log[i].kind = store_log[j].kind)
              => store_log[i].ret = store_log[j].ret

\* the timeline run_simulation stored was stored again under the same run id
\* and kind with other bytes, and the file:// handle loads the later bytes
C25_Witness ==
    /\ Loaded
    /\ art_result.arg[1] = "file://"
    /\ \E i, j \in StoresReturning(art_result.arg) :
          /\ i < j
          /\ j = Len(store_log)
          /\ store_log[i].by = "run_simulation"
          /\ store_log[j].by = "caller"
          /\ store_log[i].kind = store_log[j].kind
          /\ store_log[i].payload # store_log[j].payload
          /\ art_result.data.bytes = store_log[j].payload

\* the index of a run with two files lists timeline.csv after kpi.json
C25_CollectedWitness ==
    /\ Collected
    /\ Len(art_result.index.artifacts) = 2
    /\ art_result.index.artifacts[2].name = "timeline.csv"

====
